---- MODULE Spec2Model ----
(***************************************************************************)
(* A state-machine model of the spike-sorting pipeline coordinator of      *)
(* nwb_datajoint: the SortGroup grouping functions, the permission-gated   *)
(* deletes of the sorting tables and the clean-up of the spike sorting     *)
(* storage directory (common/common_spikesorting.py), together with the    *)
(* curation tables of spikesorting/spikesorting_curation.py.               *)
(*                                                                         *)
(* Tables are sets of rows (records named after the columns); the storage  *)
(* directory is the set of the names of its sub-directories.  The table    *)
(* store itself (DataJoint) is outside the repository: insert1 adds a row  *)
(* with the declared defaults, fetch returns the restricted rows in an     *)
(* order the store chooses, delete removes the restricted rows and, by the *)
(* declared foreign keys, the rows that depend on them.                    *)
(***************************************************************************)
EXTENDS Integers, Sequences, FiniteSets, TLC

(***************************************************************************)
(* Bounds of the model.                                                    *)
(***************************************************************************)
NumElectrodes == 3      \* electrodes of session "s1": ids 0 .. NumElectrodes-1
NumSortingRuns == 4     \* analysis files made by earlier runs of SpikeSorting.make
MaxNewRuns == 2         \* runs of SpikeSorting.make in one behaviour
NumSamples == 1003      \* samples of the e-series of the NWB file
MaxMetrics == 2          \* names of a metric_dict
MaxTableUnits == 2       \* rows of a units table read back
MaxColumns == 3          \* unit properties a units table has as columns
MaxChannels == 2         \* member electrodes of the sort group get_geometry is asked for
MaxCoordinate == 2       \* relative positions of a probe electrode: 0 .. MaxCoordinate
MaxRefListLen == 2       \* rows of a sort_group_ref_list
NumUnits == 3           \* units of a sorting: ids 1 .. NumUnits

Sessions == {"s1", "s2"}
ElectrodeIds == 0 .. (NumElectrodes - 1)
ElectrodeGroupNames == {1, 2}
Shanks == {0, 1}
\* original_reference_electrode: -1 no reference, -2 common median, or an
\* electrode id
ReferenceValues == {-2, -1, 0}

Teams == {"t1", "t2"}
LabMembers == {"m1", "m2"}
\* database users: the datajoint names of m1 and m2
DatabaseUsers == {"u1", "u2"}

VARIABLES
    electrodes,           \* Electrode table (read only here)
    sortGroups,           \* SortGroup table
    sortGroupElectrodes,  \* SortGroup.SortGroupElectrode part table
    lastGroupCall,        \* the last grouping call and how it ended
    params,               \* SpikeSortingParameters table
    teamMembers,          \* LabTeam.LabTeamMember table
    memberInfo,           \* LabMember.LabMemberInfo table
    spikeSorting,         \* SpikeSorting table
    curatedSpikeSorting,  \* CuratedSpikeSorting table of common_spikesorting
    curationSortings,     \* CuratedSpikeSorting table of spikesorting_curation
    finalizedSortings,    \* FinalizedCuratedSpikeSorting table
    lastDelete,           \* the last delete call and how it ended
    dirs,                 \* names of the directories in SPIKE_SORTING_STORAGE_DIR
    workDirs,             \* names of the directories in another working directory
    nextName,             \* the next analysis file name AnalysisNwbfile hands out
    abortedRuns,          \* the runs that ended after their directory was made
    lastStoreCall,        \* the last make or clean-up call and how it ended
    workspaceCuration,    \* labels and merge groups of the sorting in the workspace
    analysisFiles,        \* AnalysisNwbfile rows of curated sortings, with their units
    sortingFolders,       \* sortings saved under NWB_DATAJOINT_SORTING_DIR
    curatedUnits,         \* CuratedSpikeSorting.Unit part table of common_spikesorting
    lastCurationCall,     \* the last curation call and how it ended
    unitsTable,           \* the units table read back from an analysis file
    workspaces,           \* the curation workspaces created, by name
    metricDict,           \* metric_dict of the SpikeSortingMetrics row
    geometryCall,         \* the last call of get_geometry: positions and result
    recordingCall,        \* the last call of get_filtered_recording_extractor
    artifactCall,         \* the last run of the artifact step or of get_no_artifact_times
    ruleCall,             \* the last call of a rule of AutomaticCuration and what it returned
    runsInProgress,       \* the runs of SpikeSorting.make that have not ended, with their position
    labelCall,            \* what the last run of CuratedSpikeSorting.make handed to add_units
    inclusionCall         \* the last call of get_included_units and what it returned

groupVars == <<electrodes, sortGroups, sortGroupElectrodes, lastGroupCall>>
labVars == <<params, teamMembers, memberInfo>>
sortingVars == <<spikeSorting, curatedSpikeSorting>>
artifactVars == <<workspaceCuration, analysisFiles, sortingFolders, curatedUnits,
                  lastCurationCall>>
curationVars == <<curationSortings, finalizedSortings, artifactVars>>
storeVars == <<dirs, workDirs, nextName, abortedRuns, lastStoreCall>>
callVars == <<recordingCall, artifactCall, ruleCall, runsInProgress, labelCall, inclusionCall>>
stageVars == <<unitsTable, workspaces, metricDict, geometryCall, callVars>>
vars == <<electrodes, sortGroups, sortGroupElectrodes, lastGroupCall,
          params, teamMembers, memberInfo, spikeSorting, curatedSpikeSorting,
          curationSortings, finalizedSortings, lastDelete,
          dirs, workDirs, nextName, abortedRuns, lastStoreCall,
          workspaceCuration, analysisFiles, sortingFolders, curatedUnits,
          lastCurationCall, unitsTable, workspaces, metricDict, geometryCall,
          callVars>>

(***************************************************************************)
(* Helpers standing for numpy / the table store.                           *)
(***************************************************************************)
Min(S) == CHOOSE x \in S : \A y \in S : x <= y
Max(S) == CHOOSE x \in S : \A y \in S : x >= y

RECURSIVE SortedSeq(_)
\* np.unique: the distinct values in ascending order
SortedSeq(S) == IF S = {} THEN <<>> ELSE <<Min(S)>> \o SortedSeq(S \ {Min(S)})

\* the orders in which a fetch may return the rows of S
FetchOrders(S) ==
    {f \in [1 .. Cardinality(S) -> S] : \A x \in S : \E i \in DOMAIN f : f[i] = x}

\* boolean-mask indexing of a fetched array: the rows that satisfy P, in
\* fetch order
RECURSIVE Masked(_, _, _)
Masked(rows, e_group, shank) ==
    IF rows = <<>> THEN <<>>
    ELSE LET r == Head(rows)
             rest == Masked(Tail(rows), e_group, shank)
         IN IF r.electrode_group_name = e_group
               /\ (shank = -1 \/ r.probe_shank = shank)
            THEN <<r>> \o rest ELSE rest

Range(s) == {s[i] : i \in DOMAIN s}

(***************************************************************************)
(* Access control: SpikeSorting.delete and CuratedSpikeSorting.delete of   *)
(* common_spikesorting, and the deletes of the curation tables.            *)
(***************************************************************************)
\* (SpikeSortingParameters & entry).fetch1()['team_name']: the parameters row
\* the entry depends on
TeamOf(entry) ==
    (CHOOSE p \in params : /\ p.nwb_file_name = entry.nwb_file_name
                           /\ p.sort_group_id = entry.sort_group_id).team_name

\* (LabTeam.LabTeamMember & team_name).fetch('lab_member_name')
lab_member_name_list(team_name) ==
    {m.lab_member_name : m \in {x \in teamMembers : x.team_name = team_name}}

\* fetch1 on LabMember.LabMemberInfo raises unless the member has its row
InfoMissing(entry) ==
    \E lab_member_name \in lab_member_name_list(TeamOf(entry)) :
        ~\E i \in memberInfo : i.lab_member_name = lab_member_name

datajoint_user_names(entry) ==
    {i.datajoint_user_name :
        i \in {x \in memberInfo : x.lab_member_name \in lab_member_name_list(TeamOf(entry))}}

\* permission_bool with an empty team letting everybody through
permission_bool_EmptyTeamPasses(entry, current_user_name) ==
    \/ current_user_name \in datajoint_user_names(entry)
    \/ datajoint_user_names(entry) = {}

\* permission_bool[entry_idx]
permission_bool(entry, current_user_name) ==
    current_user_name \in datajoint_user_names(entry)

\* the test np.sum(permission_bool) > 0: one permitted row is enough
PermissionGranted_AnyRow(entries, current_user_name) ==
    \/ entries = {}
    \/ \E e \in entries : permission_bool(e, current_user_name)

\* np.sum(permission_bool) == len(entries)
PermissionGranted(entries, current_user_name) ==
    Cardinality({e \in entries : permission_bool(e, current_user_name)})
        = Cardinality(entries)

\* the rows of a table that hang, by foreign key, on one of the given rows
DependentRows(table, rows) ==
    {d \in table : \E r \in rows : /\ d.nwb_file_name = r.nwb_file_name
                                   /\ d.sort_group_id = r.sort_group_id}

\* the candidate rows the requester is not entitled to delete
Unauthorized(entries, current_user_name) ==
    {e \in entries : ~permission_bool(e, current_user_name)}

\* what a delete call leaves behind for the properties: the table, the number
\* of candidate rows, how many of them belong to a team without the
\* requester, whether a candidate's team has no member, whether the
\* permission loop ran to its end, the exception raised and the number of
\* rows that left their tables
DeleteCall(table, entries, unauthorized, empty_team, checked, error, removed) ==
    [table |-> table, candidates |-> Cardinality(entries),
     unauthorized |-> unauthorized, empty_team |-> empty_team,
     checked |-> checked, error |-> error, removed |-> removed]

GatedDeleteCall(table, entries, current_user_name, checked, error, removed) ==
    DeleteCall(table, entries,
               Cardinality(Unauthorized(entries, current_user_name)),
               \E e \in entries : lab_member_name_list(TeamOf(e)) = {},
               checked, error, removed)

\* SpikeSorting.delete on the restriction holding the rows entries; the base
\* delete cascades to the curated sortings computed from the rows
SpikeSortingDelete(entries, current_user_name) ==
    /\ IF \E e \in entries : InfoMissing(e)
       THEN /\ UNCHANGED sortingVars
            /\ lastDelete' = GatedDeleteCall("SpikeSorting", entries,
                                 current_user_name, FALSE, "DataJointError", 0)
       ELSE IF PermissionGranted(entries, current_user_name)
       THEN /\ spikeSorting' = spikeSorting \ entries
            /\ curatedSpikeSorting' =
                   curatedSpikeSorting \ DependentRows(curatedSpikeSorting, entries)
            /\ lastDelete' = GatedDeleteCall("SpikeSorting", entries,
                   current_user_name, TRUE, "none",
                   Cardinality(entries)
                       + Cardinality(DependentRows(curatedSpikeSorting, entries)))
       ELSE /\ UNCHANGED sortingVars
            /\ lastDelete' = GatedDeleteCall("SpikeSorting", entries,
                                 current_user_name, TRUE, "Exception", 0)
    /\ UNCHANGED <<groupVars, labVars, curationVars, storeVars, stageVars>>

\* CuratedSpikeSorting.delete of common_spikesorting
CuratedSpikeSortingDelete(entries, current_user_name) ==
    /\ IF \E e \in entries : InfoMissing(e)
       THEN /\ UNCHANGED sortingVars
            /\ lastDelete' = GatedDeleteCall("CuratedSpikeSorting", entries,
                                 current_user_name, FALSE, "DataJointError", 0)
       ELSE IF PermissionGranted(entries, current_user_name)
       THEN /\ curatedSpikeSorting' = curatedSpikeSorting \ entries
            /\ UNCHANGED spikeSorting
            /\ lastDelete' = GatedDeleteCall("CuratedSpikeSorting", entries,
                                 current_user_name, TRUE, "none", Cardinality(entries))
       ELSE /\ UNCHANGED sortingVars
            /\ lastDelete' = GatedDeleteCall("CuratedSpikeSorting", entries,
                                 current_user_name, TRUE, "Exception", 0)
    /\ UNCHANGED <<groupVars, labVars, curationVars, storeVars, stageVars>>

\* spikesorting_curation.CuratedSpikeSorting declares no delete of its own:
\* the delete of the table store runs for whoever calls it, and takes the
\* finalized rows of the deleted sortings with it
CurationSortingDelete(entries) ==
    /\ curationSortings' = curationSortings \ entries
    /\ finalizedSortings' =
           {f \in finalizedSortings :
               ~\E e \in entries : e.sorting_id = f.sorting_id}
    /\ lastDelete' = DeleteCall("curation.CuratedSpikeSorting", entries, 0, FALSE,
           FALSE, "none",
           Cardinality(entries)
               + Cardinality({f \in finalizedSortings :
                                 \E e \in entries : e.sorting_id = f.sorting_id}))
    /\ UNCHANGED <<groupVars, labVars, sortingVars, storeVars, artifactVars, stageVars>>

\* FinalizedCuratedSpikeSorting declares no delete of its own either
FinalizedSortingDelete(entries) ==
    /\ finalizedSortings' = finalizedSortings \ entries
    /\ UNCHANGED curationSortings
    /\ lastDelete' = DeleteCall("FinalizedCuratedSpikeSorting", entries, 0, FALSE,
           FALSE, "none", Cardinality(entries))
    /\ UNCHANGED <<groupVars, labVars, sortingVars, storeVars, artifactVars, stageVars>>

(***************************************************************************)
(* Artifact store: SpikeSorting.make up to the point where a run ends,     *)
(* SpikeSorting.nightly_cleanup and CuratedSpikeSorting.delete_extractors. *)
(***************************************************************************)
\* the table restricted by a dict: the rows that agree with key on the
\* attributes key names
Restrict(table, key) ==
    {r \in table : \A a \in DOMAIN key : r[a] = key[a]}

\* AnalysisNwbfile().create(nwb_file_name): a new file under a name no
\* analysis file had before
NewAnalysisFileName == nextName

\* the distance the assertion of get_filtered_recording_extractor compares
\* the sort indices with
MinIndexDistance == 1000

\* the last name AnalysisNwbfile hands out within the bounds
LastName == NumSortingRuns + 3 + MaxNewRuns

\* Where a run of SpikeSorting.make can end.  The first two lie before the
\* directory of the run is made, the others after it.  "store_json" is the
\* statement kp.store_json(...): the module binds no name kp, so a run that
\* gets this far ends there with a NameError, and self.insert1(key), which
\* comes later, is not reached by any run.
MakeEndings ==
    {"sort_indices", "get_no_artifact_times", "run_sorter", "compute_metrics",
     "store_json"}

BeforeDirectory == {"sort_indices", "get_no_artifact_times"}

StoreCall(op, answer, listed, removed, removed_elsewhere, error) ==
    [op |-> op, answer |-> answer, listed |-> listed, removed |-> removed,
     removed_elsewhere |-> removed_elsewhere, error |-> error,
     key |-> <<>>, sort_interval |-> <<0, 0>>, sort_indices |-> <<0, 0>>,
     analysis_file_name |-> 0, run_sorter_calls |-> 0, compute_metrics_calls |-> 0,
     metric_names |-> {}, valid |-> TRUE]

NoStoreCall == StoreCall("none", "not asked", {}, {}, {}, "none")

\* the store when nothing of it is looked at
EmptyStore ==
    /\ dirs = {}
    /\ workDirs = {}
    /\ nextName = NumSortingRuns + 4
    /\ abortedRuns = {}
    /\ lastStoreCall = NoStoreCall

\* the timestamps of the e-series of the NWB file: one sample every two
\* ticks, the first at tick 0
timestamps == [i \in 1..NumSamples |-> 2 * (i - 1)]

\* np.searchsorted(a, v): the number of entries of the sorted array a that
\* are less than v, which is the 0-based index v would be inserted at
searchsorted(a, v) == Cardinality({i \in DOMAIN a : a[i] < v})

\* the sort intervals (start tick, end tick) the SortInterval row may hold
SortIntervals == {<<0, 1998>>, <<0, 2000>>, <<1, 2001>>, <<0, 2001>>, <<1, 2003>>}

\* sort_indices = np.searchsorted(timestamps, np.ravel(sort_interval))
sort_indices ==
    [sort_interval \in SortIntervals |->
        <<searchsorted(timestamps, sort_interval[1]),
          searchsorted(timestamps, sort_interval[2])>>]

\* the assertion holding whenever the interval maps to 1000 samples or more
SortIndicesValid_AtLeast(indices) == indices[2] - indices[1] >= MinIndexDistance

\* assert sort_indices[1] - sort_indices[0] > 1000
SortIndicesValid(indices) == indices[2] - indices[1] > MinIndexDistance

\* a workspace sortingview.create_workspace made, under the name kc.set
\* filed it, with the key of the run that made it
Workspace(workspace_name, key) ==
    [workspace_name |-> workspace_name,
     key |-> <<key.nwb_file_name, key.sort_group_id>>]

\* kc.get(workspace_name): is a workspace filed under the name?
WorkspaceFiled(workspace_name) ==
    \E w \in workspaces : w.workspace_name = workspace_name

\* the statements of make that lie behind the creation of the workspace
AfterWorkspace == {"store_json"}

\* the calls of ss.run_sorter of a run: one, a run that ends at it included
run_sorter_calls_Retry(ending) ==
    IF ending \in BeforeDirectory THEN 0 ELSE IF ending = "run_sorter" THEN 2 ELSE 1

\* the calls of ss.run_sorter of a run: the one statement, once the run
\* has got to it
run_sorter_calls(ending) == IF ending \in BeforeDirectory THEN 0 ELSE 1

\* the statements of make from the call of compute_metrics on
FromComputeMetrics == {"compute_metrics", "store_json"}

\* selected_metrics_list(metric_dict): the metrics set to True
selected_metrics_list(metric_dict) ==
    {metric \in DOMAIN metric_dict : metric_dict[metric]}

\* SpikeSorting.make(key), called by populate for a parameters row that has
\* no SpikeSorting row yet; sort_interval is what the SortInterval row of
\* the key holds.  The run ends at the assertion on the sort indices if and
\* only if the assertion fails.
make(key, sort_interval, ending) ==
    /\ key \in params
    /\ Restrict(spikeSorting, [nwb_file_name |-> key.nwb_file_name,
                               sort_group_id |-> key.sort_group_id]) = {}
    /\ nextName <= LastName
    /\ (ending = "sort_indices") <=> ~SortIndicesValid(sort_indices[sort_interval])
    /\ LET analysis_file_name == NewAnalysisFileName
       IN /\ nextName' = nextName + 1
          /\ dirs' = IF ending \in BeforeDirectory
                     THEN dirs ELSE dirs \cup {analysis_file_name}
          /\ abortedRuns' = IF ending \in BeforeDirectory
                            THEN abortedRuns
                            ELSE abortedRuns \cup {analysis_file_name}
          /\ workspaces' =
                 LET workspace_name == analysis_file_name
                 IN IF ending \in AfterWorkspace /\ ~WorkspaceFiled(workspace_name)
                    THEN workspaces \cup {Workspace(workspace_name, key)}
                    ELSE workspaces
          /\ lastStoreCall' =
                 [StoreCall("make", "not asked", {}, {}, {}, ending)
                    EXCEPT !.key = <<key.nwb_file_name, key.sort_group_id>>,
                           !.sort_interval = sort_interval,
                           !.sort_indices = sort_indices[sort_interval],
                           !.analysis_file_name = analysis_file_name,
                           !.run_sorter_calls = run_sorter_calls(ending),
                           !.compute_metrics_calls =
                               IF ending \in FromComputeMetrics THEN 1 ELSE 0,
                           !.metric_names =
                               IF ending \in FromComputeMetrics
                               THEN selected_metrics_list(metricDict) ELSE {}]
    /\ UNCHANGED <<groupVars, labVars, sortingVars, curationVars, lastDelete, workDirs,
                   unitsTable, metricDict, geometryCall, callVars>>

\* the loop testing the full path, which is no analysis file name
NightlyRemoved_FullPath(dir_names, analysis_file_names) == dir_names

\* the loop with its test turned round
NightlyRemoved_Inverted(dir_names, analysis_file_names) ==
    {dir \in dir_names : dir \in analysis_file_names}

\* the directories the loop of nightly_cleanup removes
NightlyRemoved(dir_names, analysis_file_names) ==
    {dir \in dir_names : ~(dir \in analysis_file_names)}

nightly_cleanup ==
    LET dir_names == dirs
        analysis_file_names == {r.analysis_file_name : r \in spikeSorting}
        removed == NightlyRemoved(dir_names, analysis_file_names)
    IN /\ dirs' = dirs \ removed
       /\ lastStoreCall' = StoreCall("nightly_cleanup", "not asked", removed, removed,
                                     {}, "none")
       /\ UNCHANGED <<groupVars, labVars, sortingVars, curationVars, lastDelete,
                      workDirs, nextName, abortedRuns, stageVars>>

\* delete_list of delete_extractors
delete_list(dir_names, analysis_file_names) ==
    {dir \in dir_names : ~(dir \in analysis_file_names)}

\* every answer but 'n' taken for a yes
Confirmed_UnlessNo(answer) == answer # "n"

\* delete == 'y' or delete == 'Y'
Confirmed(answer) == answer = "y" \/ answer = "Y"

\* for dir in delete_list: shutil.rmtree(dir).  The first name that is no
\* directory of the working directory raises FileNotFoundError and ends the
\* loop, and os.walk lists the names in no particular order: when every
\* listed name is present all are removed, otherwise any of the present ones
\* may have come before the first missing one.
RemovalOutcomes(listed, present) ==
    IF listed \subseteq present THEN {listed} ELSE SUBSET (listed \cap present)

\* CuratedSpikeSorting.delete_extractors(key).  The names of delete_list are
\* passed to shutil.rmtree as they are, so they name directories of the
\* working directory of the process, which is the storage directory or not.
delete_extractors(key, answer, in_storage_dir) ==
    LET listed == delete_list(dirs, {r.analysis_file_name :
                                        r \in Restrict(curatedSpikeSorting, key)})
    IN \E removed \in (IF Confirmed(answer)
                       THEN RemovalOutcomes(listed,
                                IF in_storage_dir THEN dirs ELSE workDirs)
                       ELSE {{}}) :
           /\ dirs' = IF in_storage_dir THEN dirs \ removed ELSE dirs
           /\ workDirs' = IF in_storage_dir THEN workDirs ELSE workDirs \ removed
           /\ lastStoreCall' =
                  StoreCall("delete_extractors", answer, listed,
                            IF in_storage_dir THEN removed ELSE {},
                            IF in_storage_dir THEN {} ELSE removed,
                            IF Confirmed(answer) /\ removed # listed
                            THEN "FileNotFoundError" ELSE "none")
           /\ UNCHANGED <<groupVars, labVars, sortingVars, curationVars, lastDelete,
                          nextName, abortedRuns, stageVars>>

\* no workspace curation, no curated sorting stored
CurationCall(op, error, parent_sorting_id, sorting_id, units, accepted) ==
    [op |-> op, error |-> error, parent_sorting_id |-> parent_sorting_id,
     sorting_id |-> sorting_id, units |-> units, accepted |-> accepted]

NoCurationCall == CurationCall("none", "none", "", "", {}, {})

\* no units table read, no stage at work
NoUnitsTable == [columns |-> {}, label |-> <<>>, metrics |-> <<>>]

NoGeometryCall == [tmp_geom |-> <<>>, geometry |-> <<>>]

\* st.validation.get_quality_metrics_list(): the names of the catalog
metrics_list == {"firing_rate", "nn_hit_rate", "noise_overlap"}

\* the metric_dict get_default_metrics_entry inserts: every metric of the
\* catalog, the three of the default set to True
DefaultMetricDict == [metric \in metrics_list |-> TRUE]

\* get_filtered_recording_extractor not yet called
NoRecordingCall ==
    [called |-> FALSE, nwb_file_name |-> "none", sort_group_id |-> 0,
     sort_indices |-> <<0, 0>>, error |-> "none", sliced |-> <<>>,
     reference |-> "none", ref_channels |-> {}, channel_ids |-> <<>>,
     bandpass_filter |-> FALSE]

\* the parameter_dict of a SpikeSortingArtifactParameters row
ParameterDict(skip, zscore_thresh, amplitude_thresh) ==
    [skip |-> skip, zscore_thresh |-> zscore_thresh, amplitude_thresh |-> amplitude_thresh]

\* the artifact step not yet run
NoArtifactCall ==
    [op |-> "none", parameter_dict |-> ParameterDict(TRUE, -1, -1),
     sort_indices |-> <<0, 0>>, error |-> "none", returned |-> <<>>,
     masked |-> FALSE, valid_times_updated |-> FALSE]

\* no rule of AutomaticCuration called yet
NoRuleCall ==
    [op |-> "none", units |-> {}, isi_violation |-> <<>>, params |-> <<>>,
     error |-> "none", returned |-> "none", sorting |-> {}, units_merged |-> FALSE]

\* CuratedSpikeSorting.make not yet run on ordered labels
NoLabelCall ==
    [called |-> FALSE, error |-> "none", orig_units |-> 0, unit_labels |-> <<>>,
     accepted_units |-> <<>>, unit_ids |-> <<>>, labels_concat |-> <<>>,
     sort_interval |-> <<>>]

\* get_included_units not yet called
NoInclusionCall ==
    [called |-> FALSE, curated_sortings |-> {}, unit_inclusion_param_name |-> "none",
     returned |-> {}]

\* no call looked at yet
IdleCalls ==
    /\ recordingCall = NoRecordingCall
    /\ artifactCall = NoArtifactCall
    /\ ruleCall = NoRuleCall
    /\ runsInProgress = {}
    /\ labelCall = NoLabelCall
    /\ inclusionCall = NoInclusionCall

IdleStages ==
    /\ unitsTable = NoUnitsTable
    /\ workspaces = {}
    /\ metricDict = DefaultMetricDict
    /\ geometryCall = NoGeometryCall
    /\ IdleCalls

NoArtifacts ==
    /\ workspaceCuration = [labelsByUnit |-> <<>>, mergeGroups |-> <<>>]
    /\ analysisFiles = {}
    /\ sortingFolders = {}
    /\ curatedUnits = {}
    /\ lastCurationCall = NoCurationCall
    /\ IdleStages

(***************************************************************************)
(* SortGroup: set_group_by_shank and set_group_by_electrode_group.         *)
(***************************************************************************)
\* the column default of SortGroup.sort_reference_electrode_id
DefaultSortReference == -1

\* the fetch without the restriction to the good channels
GoodElectrodes_AllChannels(nwb_file_name) ==
    {e \in electrodes : e.nwb_file_name = nwb_file_name}

\* the rows (Electrode & nwb_file_name & bad_channel = 'False')
GoodElectrodes(nwb_file_name) ==
    {e \in electrodes : e.nwb_file_name = nwb_file_name /\ e.bad_channel = "False"}

RECURSIVE ShankUnits_Descending(_, _)
\* the shanks of an electrode group visited from the highest to the lowest
ShankUnits_Descending(rows, e_groups) ==
    IF e_groups = <<>> THEN <<>>
    ELSE LET e_group == Head(e_groups)
             shank_list == SortedSeq({r.probe_shank :
                              r \in {x \in Range(rows) : x.electrode_group_name = e_group}})
         IN [i \in DOMAIN shank_list |->
                [e_group |-> e_group, shank |-> shank_list[Len(shank_list) + 1 - i]]]
            \o ShankUnits_Descending(rows, Tail(e_groups))

RECURSIVE ShankUnits(_, _)
\* the (electrode group, shank) pairs in the order the two nested loops of
\* set_group_by_shank visit them
ShankUnits(rows, e_groups) ==
    IF e_groups = <<>> THEN <<>>
    ELSE LET e_group == Head(e_groups)
             shank_list == SortedSeq({r.probe_shank :
                              r \in {x \in Range(rows) : x.electrode_group_name = e_group}})
         IN [i \in DOMAIN shank_list |-> [e_group |-> e_group, shank |-> shank_list[i]]]
            \o ShankUnits(rows, Tail(e_groups))

\* the electrode groups in the order the loop of set_group_by_electrode_group
\* visits them; shank -1 stands for "no shank mask"
GroupUnits(e_groups) ==
    [i \in DOMAIN e_groups |-> [e_group |-> e_groups[i], shank |-> -1]]

\* do the declared references of one unit disagree?
RefsDisagree(shank_elect_ref) ==
    Max(Range(shank_elect_ref)) # Min(Range(shank_elect_ref))

\* the reference of the first channel taken whether or not the others agree
KeyAfterReferenceTest_FirstChannel(sg_key, shank_elect_ref) ==
    ("sort_reference_electrode_id" :> shank_elect_ref[1]) @@ sg_key

\* the reference test: sg_key gets the common reference; when the references
\* disagree a ValueError object is built but never raised, and sg_key keeps
\* whatever it held
KeyAfterReferenceTest(sg_key, shank_elect_ref) ==
    IF ~RefsDisagree(shank_elect_ref)
    THEN ("sort_reference_electrode_id" :> shank_elect_ref[1]) @@ sg_key
    ELSE sg_key

\* self.insert1(sg_key): the columns sg_key lacks take their defaults
SortGroupRow(sg_key) ==
    [nwb_file_name |-> sg_key["nwb_file_name"],
     sort_group_id |-> sg_key["sort_group_id"],
     sort_reference_electrode_id |->
        IF "sort_reference_electrode_id" \in DOMAIN sg_key
        THEN sg_key["sort_reference_electrode_id"]
        ELSE DefaultSortReference]

SortGroupElectrodeRow(nwb_file_name, sort_group, e) ==
    [nwb_file_name |-> nwb_file_name,
     sort_group_id |-> sort_group,
     electrode_group_name |-> e.electrode_group_name,
     electrode_id |-> e.electrode_id]

RECURSIVE GroupLoop(_, _, _, _, _)
\* the body of the grouping loops, one unit per turn; acc collects the rows
\* inserted so far and whether some unit had disagreeing references
GroupLoop(rows, units, sort_group, sg_key, acc) ==
    IF units = <<>> THEN acc
    ELSE LET unit == Head(units)
             members == Masked(rows, unit.e_group, unit.shank)
             shank_elect_ref ==
                 [i \in DOMAIN members |-> members[i].original_reference_electrode]
             key == KeyAfterReferenceTest(
                        ("sort_group_id" :> sort_group) @@ sg_key, shank_elect_ref)
         IN GroupLoop(rows, Tail(units), sort_group + 1, key,
               [sg |-> acc.sg \cup {SortGroupRow(key)},
                sge |-> acc.sge \cup
                    {SortGroupElectrodeRow(key["nwb_file_name"], sort_group, members[i]) :
                        i \in DOMAIN members},
                mismatch |-> acc.mismatch \/ RefsDisagree(shank_elect_ref)])

NoRows == [sg |-> {}, sge |-> {}, mismatch |-> FALSE]

\* a delete that removes nothing: the new groups are merged into the old
OtherSessions_KeepAll(table, nwb_file_name) == table

\* (SortGroup & nwb_file_name).delete(): the groups of the session and their
\* member rows go
OtherSessions(table, nwb_file_name) ==
    {r \in table : r.nwb_file_name # nwb_file_name}

\* ... and with them, by the foreign keys, the parameter rows that name a
\* group of the session, the sortings run on those and their curated sortings
DeleteSortGroupDependents(nwb_file_name) ==
    /\ params' = OtherSessions(params, nwb_file_name)
    /\ spikeSorting' = OtherSessions(spikeSorting, nwb_file_name)
    /\ curatedSpikeSorting' = OtherSessions(curatedSpikeSorting, nwb_file_name)
    /\ UNCHANGED <<electrodes, teamMembers, memberInfo, curationVars, lastDelete,
                   storeVars, stageVars>>

GroupCall(op, nwb_file_name, res) ==
    [op |-> op, nwb_file_name |-> nwb_file_name, mismatch |-> res.mismatch,
     raised |-> FALSE,
     replaced |-> Cardinality({g \in sortGroups : g.nwb_file_name = nwb_file_name}),
     repeat |-> lastGroupCall.op = op /\ lastGroupCall.nwb_file_name = nwb_file_name,
     sort_group_ref_list |-> <<>>]

set_group_by_shank(nwb_file_name) ==
    \E rows \in FetchOrders(GoodElectrodes(nwb_file_name)) :
        LET e_groups == SortedSeq({r.electrode_group_name : r \in Range(rows)})
            res == GroupLoop(rows, ShankUnits(rows, e_groups), 0,
                             [nwb_file_name |-> nwb_file_name], NoRows)
        IN /\ sortGroups' = OtherSessions(sortGroups, nwb_file_name) \cup res.sg
           /\ sortGroupElectrodes' =
                  OtherSessions(sortGroupElectrodes, nwb_file_name) \cup res.sge
           /\ lastGroupCall' = GroupCall("set_group_by_shank", nwb_file_name, res)
           /\ DeleteSortGroupDependents(nwb_file_name)

set_group_by_electrode_group(nwb_file_name) ==
    \E rows \in FetchOrders(GoodElectrodes(nwb_file_name)) :
        LET e_groups == SortedSeq({r.electrode_group_name : r \in Range(rows)})
            res == GroupLoop(rows, GroupUnits(e_groups), 0,
                             [nwb_file_name |-> nwb_file_name], NoRows)
        IN /\ sortGroups' = OtherSessions(sortGroups, nwb_file_name) \cup res.sg
           /\ sortGroupElectrodes' =
                  OtherSessions(sortGroupElectrodes, nwb_file_name) \cup res.sge
           /\ lastGroupCall' =
                  GroupCall("set_group_by_electrode_group", nwb_file_name, res)
           /\ DeleteSortGroupDependents(nwb_file_name)

(***************************************************************************)
(* The grouping specification: the electrode metadata of session "s1" is   *)
(* drawn from the bounded sets, session "s2" has two good electrodes on    *)
(* two shanks of one group.                                                *)
(***************************************************************************)
ElectrodeRow(nwb_file_name, id, e_group, shank, ref, bad) ==
    [nwb_file_name |-> nwb_file_name, electrode_id |-> id,
     electrode_group_name |-> e_group, probe_shank |-> shank,
     original_reference_electrode |-> ref, bad_channel |-> bad]

OtherSessionElectrodes == {ElectrodeRow("s2", 0, 1, 0, -1, "False")}

ParametersRow(nwb_file_name, sort_group_id, team_name) ==
    [nwb_file_name |-> nwb_file_name, sort_group_id |-> sort_group_id,
     team_name |-> team_name]

TeamMemberRow(team_name, lab_member_name) ==
    [team_name |-> team_name, lab_member_name |-> lab_member_name]

MemberInfoRow(lab_member_name, datajoint_user_name) ==
    [lab_member_name |-> lab_member_name, datajoint_user_name |-> datajoint_user_name]

\* a row of SpikeSorting or of CuratedSpikeSorting (common_spikesorting):
\* the key of the parameters row and the analysis file of the row
SortingRow(nwb_file_name, sort_group_id, analysis_file_name) ==
    [nwb_file_name |-> nwb_file_name, sort_group_id |-> sort_group_id,
     analysis_file_name |-> analysis_file_name]

NoDeleteCall == DeleteCall("none", {}, 0, FALSE, FALSE, "none", 0)

NoGroupCall ==
    [op |-> "none", nwb_file_name |-> "none", mismatch |-> FALSE,
     raised |-> FALSE, replaced |-> 0, repeat |-> FALSE, sort_group_ref_list |-> <<>>]

\* The metadata one electrode may carry.  Electrode ids are labels the
\* grouping never computes with, so the tables are drawn up to a renaming of
\* the ids: the metadata is listed in a fixed order along the ids.
ElectrodeMetadata ==
    [electrode_group_name : ElectrodeGroupNames, probe_shank : Shanks,
     original_reference_electrode : ReferenceValues, bad_channel : {"False", "True"}]

MetadataRank(m) ==
    ((m.electrode_group_name * 2 + m.probe_shank) * 4
        + (m.original_reference_electrode + 2)) * 2
        + (IF m.bad_channel = "True" THEN 1 ELSE 0)

InitGroup ==
    /\ \E meta \in [ElectrodeIds -> ElectrodeMetadata] :
          /\ \A i, j \in ElectrodeIds :
                i < j => MetadataRank(meta[i]) <= MetadataRank(meta[j])
          /\ electrodes =
                {ElectrodeRow("s1", id, meta[id].electrode_group_name,
                              meta[id].probe_shank,
                              meta[id].original_reference_electrode,
                              meta[id].bad_channel) : id \in ElectrodeIds}
                \cup OtherSessionElectrodes
    /\ sortGroups = {SortGroupRow([nwb_file_name |-> "s2", sort_group_id |-> 0])}
    /\ sortGroupElectrodes =
           {SortGroupElectrodeRow("s2", 0, e) : e \in OtherSessionElectrodes}
    /\ lastGroupCall = NoGroupCall
    /\ params = {ParametersRow("s2", 0, "t1")}
    /\ teamMembers = {TeamMemberRow("t1", "m1")}
    /\ memberInfo = {MemberInfoRow("m1", "u1")}
    /\ spikeSorting = {SortingRow("s2", 0, 3)}
    /\ curatedSpikeSorting = {SortingRow("s2", 0, NumSortingRuns + 3)}
    /\ curationSortings = {}
    /\ finalizedSortings = {}
    /\ NoArtifacts
    /\ lastDelete = NoDeleteCall
    /\ EmptyStore

NextGroup ==
    \/ \E nwb_file_name \in Sessions : set_group_by_shank(nwb_file_name)
    \/ \E nwb_file_name \in Sessions : set_group_by_electrode_group(nwb_file_name)

SpecGroup == InitGroup /\ [][NextGroup]_vars

(***************************************************************************)
(* The access specification: three sort groups with their parameter rows,  *)
(* sortings and curated sortings; the teams of the rows and the members of *)
(* the teams are drawn from the bounded sets (the team names being        *)
(* interchangeable, the first row is given team "t1").  Member m2 may lack *)
(* its LabMemberInfo row.                                                  *)
(***************************************************************************)
AccessElectrodes ==
    {ElectrodeRow("s1", id, 1, id % 2, -1, "False") : id \in ElectrodeIds}
        \cup OtherSessionElectrodes

SortKeys == {<<"s1", 0>>, <<"s1", 1>>, <<"s2", 0>>}

\* the analysis file of the sorting stored for a key, and of its curated
\* sorting
StoredRunOf(k) == IF k = <<"s1", 0>> THEN 1 ELSE IF k = <<"s1", 1>> THEN 2 ELSE 3

StoredSortings == {SortingRow(k[1], k[2], StoredRunOf(k)) : k \in SortKeys}

StoredCuratedSortings ==
    {SortingRow(k[1], k[2], NumSortingRuns + StoredRunOf(k)) : k \in SortKeys}

CurationSortingRow(sorting_id, parent_sorting_id) ==
    [sorting_id |-> sorting_id, parent_sorting_id |-> parent_sorting_id]

InitAccess ==
    /\ electrodes = AccessElectrodes
    /\ sortGroups = {SortGroupRow([nwb_file_name |-> k[1], sort_group_id |-> k[2],
                                   sort_reference_electrode_id |-> -1]) : k \in SortKeys}
    /\ sortGroupElectrodes =
           {SortGroupElectrodeRow(e.nwb_file_name, e.probe_shank, e) : e \in AccessElectrodes}
    /\ lastGroupCall = NoGroupCall
    /\ \E team \in {t \in [SortKeys -> Teams] : t[<<"s1", 0>>] = "t1"} :
           params = {ParametersRow(k[1], k[2], team[k]) : k \in SortKeys}
    /\ \E members \in SUBSET (Teams \X LabMembers) :
           teamMembers = {TeamMemberRow(m[1], m[2]) : m \in members}
    /\ memberInfo \in {{MemberInfoRow("m1", "u1"), MemberInfoRow("m2", "u2")},
                       {MemberInfoRow("m1", "u1")}}
    /\ spikeSorting = StoredSortings
    /\ curatedSpikeSorting = StoredCuratedSortings
    /\ curationSortings = {CurationSortingRow("S_1", "")}
    /\ finalizedSortings = {[sorting_id |-> "S_1"]}
    /\ NoArtifacts
    /\ lastDelete = NoDeleteCall
    /\ EmptyStore

NextAccess ==
    \/ \E entries \in SUBSET spikeSorting, current_user_name \in DatabaseUsers :
           SpikeSortingDelete(entries, current_user_name)
    \/ \E entries \in SUBSET curatedSpikeSorting, current_user_name \in DatabaseUsers :
           CuratedSpikeSortingDelete(entries, current_user_name)
    \/ \E entries \in SUBSET curationSortings : CurationSortingDelete(entries)
    \/ \E entries \in SUBSET finalizedSortings : FinalizedSortingDelete(entries)

SpecAccess == InitAccess /\ [][NextAccess]_vars

(***************************************************************************)
(* The store specification: some of the three stored sortings and of their *)
(* curated sortings are still in their tables, and some of the directories *)
(* that earlier runs made are still on disk.                               *)
(***************************************************************************)
SortingRuns == 1 .. NumSortingRuns

\* the dicts delete_extractors is called with
ExtractorKeys ==
    {<<>>} \cup {[nwb_file_name |-> k[1]] : k \in SortKeys}
           \cup {[nwb_file_name |-> k[1], sort_group_id |-> k[2]] : k \in SortKeys}

Answers == {"y", "Y", "n", ""}

Init ==
    /\ electrodes = AccessElectrodes
    /\ sortGroups = {SortGroupRow([nwb_file_name |-> k[1], sort_group_id |-> k[2],
                                   sort_reference_electrode_id |-> -1]) : k \in SortKeys}
    /\ sortGroupElectrodes =
           {SortGroupElectrodeRow(e.nwb_file_name, e.probe_shank, e) : e \in AccessElectrodes}
    /\ lastGroupCall = NoGroupCall
    /\ params = {ParametersRow(k[1], k[2], "t1") : k \in SortKeys}
    /\ teamMembers = {TeamMemberRow("t1", "m1")}
    /\ memberInfo = {MemberInfoRow("m1", "u1")}
    /\ spikeSorting \in SUBSET StoredSortings
    /\ curatedSpikeSorting \in SUBSET DependentRows(StoredCuratedSortings, spikeSorting)
    /\ curationSortings = {}
    /\ finalizedSortings = {}
    /\ NoArtifacts
    /\ lastDelete = NoDeleteCall
    /\ dirs \in SUBSET SortingRuns
    /\ workDirs \in {{}, {1}}
    /\ nextName = NumSortingRuns + 4
    /\ abortedRuns = {}
    /\ lastStoreCall = NoStoreCall

Next ==
    \/ \E key \in params, sort_interval \in SortIntervals, ending \in MakeEndings :
           make(key, sort_interval, ending)
    \/ nightly_cleanup
    \/ \E key \in ExtractorKeys, answer \in Answers, in_storage_dir \in BOOLEAN :
           delete_extractors(key, answer, in_storage_dir)

Spec == Init /\ [][Next]_vars

(***************************************************************************)
(* Curation: AutomaticCuration.make, CuratedSpikeSorting.insert_sorting    *)
(* and insert_manual_curation of spikesorting_curation.py, and             *)
(* CuratedSpikeSorting.make of common_spikesorting.py.                     *)
(***************************************************************************)
UnitIds == 1 .. NumUnits

\* the values 'S_' + str(uuid.uuid4())[:8] can take
SortingIds == {"S_1", "S_2", "S_3"}

\* the label lists a unit may carry in the workspace
LabelLists == {{"accept"}, {"reject"}}

\* labels['labelsByUnit']: the labelled units with their label lists; a unit
\* nobody labelled has no entry
LabelsByUnit == UNION {[D -> LabelLists] : D \in SUBSET UnitIds}

\* labels['mergeGroups']: lists of unit ids, the first the primary
MergeGroupLists ==
    {<<>>, <<<<1, 2>>>>, <<<<2, 1>>>>, <<<<1, 2, 3>>>>}

\* the members m[1:] of one merge group
MergedUnits(m) == {m[i] : i \in 2 .. Len(m)}

\* the non-primary members of all merge groups
NonPrimaryUnits(mergeGroups) ==
    UNION {MergedUnits(mergeGroups[i]) : i \in DOMAIN mergeGroups}

\* workspace.get_curated_sorting_extractor: the units of the sorting, the
\* members of a merge group merged into its primary
CuratedSortingUnits(mergeGroups) == UnitIds \ NonPrimaryUnits(mergeGroups)

\* the loop `if 'accept' in unit_labels[unitId]` of CuratedSpikeSorting.make
accepted_units(unit_labels) ==
    {unitId \in DOMAIN unit_labels : "accept" \in unit_labels[unitId]}

RECURSIVE RemoveMerged(_, _)
\* the loop over labels['mergeGroups'] of CuratedSpikeSorting.make
RemoveMerged(accepted, mergeGroups) ==
    IF mergeGroups = <<>> THEN accepted
    ELSE LET m == Head(mergeGroups)
         IN RemoveMerged(IF MergedUnits(m) \subseteq accepted
                         THEN accepted \ MergedUnits(m) ELSE accepted,
                         Tail(mergeGroups))

\* a row of spikesorting_curation.CuratedSpikeSorting
CuratedSortingRow(sorting_id, parent_sorting_id, sorting_path, labels, metrics, analysis_file_name) ==
    [sorting_id |-> sorting_id, parent_sorting_id |-> parent_sorting_id,
     sorting_path |-> sorting_path, labels |-> labels, metrics |-> metrics,
     analysis_file_name |-> analysis_file_name]

\* a row of AnalysisNwbfile with the units and the metrics add_units wrote
\* to the file
AnalysisFile(analysis_file_name, units, metrics) ==
    [analysis_file_name |-> analysis_file_name, units |-> units, metrics |-> metrics]

\* the metrics of the parent sorting, read from its quality_metrics_path:
\* an entry for every unit of the parent
quality_metrics == [u \in UnitIds |-> "prior"]

\* SpikeSortingMetrics().compute_metrics on the curated sorting, then
\* metrics.loc[accepted_units]
RecomputedMetrics(accepted) == [u \in accepted |-> "recomputed"]

\* a sorting saved in a folder
SortingFolder(sorting_path, units) == [sorting_path |-> sorting_path, units |-> units]

\* a row of the Unit part table of common_spikesorting.CuratedSpikeSorting
UnitRow(key, unit_id) ==
    [nwb_file_name |-> key.nwb_file_name, sort_group_id |-> key.sort_group_id,
     unit_id |-> unit_id]

\* an insert that takes any row
InsertRaises_Never(table, row) == FALSE

\* CuratedSpikeSorting.insert1(sorting_key) raises when the table has a row
\* of the sorting_id, the primary key
InsertRaises(table, row) == \E r \in table : r.sorting_id = row.sorting_id

\* Where a call of insert_sorting can end: at a fetch1 before anything is
\* written, in _save_sorting_nwb after the analysis file was created, at
\* insert1 after the file was registered with AnalysisNwbfile().add, or
\* after the row is in.
InsertEndings == {"fetch1", "add_units", "insert1", "none"}

\* insert_sorting.  sorting_id is what uuid4 gives; insert1 raises when the
\* table has a row of that sorting_id.
insert_sorting(op, sorting_path, parent_sorting_id, units, metrics, labels, sorting_id, ending, accepted) ==
    /\ ending \in InsertEndings
    /\ ending # "fetch1" => nextName <= LastName
    /\ LET analysis_file_name == NewAnalysisFileName
           row == CuratedSortingRow(sorting_id, parent_sorting_id, sorting_path,
                                    labels, metrics, analysis_file_name)
       IN /\ InsertRaises(curationSortings, row) => ending # "none"
          /\ nextName' = IF ending = "fetch1" THEN nextName ELSE nextName + 1
          /\ analysisFiles' =
                 IF ending \in {"insert1", "none"}
                 THEN analysisFiles \cup {AnalysisFile(analysis_file_name, units, metrics)}
                 ELSE analysisFiles
          /\ curationSortings' =
                 IF ending = "none"
                 THEN curationSortings \cup {row}
                 ELSE curationSortings
          /\ lastCurationCall' =
                 CurationCall(op, ending, parent_sorting_id,
                              IF ending = "none" THEN sorting_id ELSE "",
                              IF ending \in {"insert1", "none"} THEN units ELSE {},
                              accepted)

\* insert_sorting called as it is, on a sorting saved at sorting_path
InsertSorting(folder, parent_sorting_id, sorting_id, ending) ==
    /\ folder \in sortingFolders
    /\ insert_sorting("insert_sorting", folder.sorting_path, parent_sorting_id,
                      folder.units, <<>>, <<>>, sorting_id, ending, {})
    /\ UNCHANGED <<groupVars, labVars, sortingVars, finalizedSortings, lastDelete,
                   dirs, workDirs, abortedRuns, lastStoreCall,
                   workspaceCuration, sortingFolders, curatedUnits, stageVars>>

\* AutomaticCuration.make: `sorting` is read in the call of
\* _sorting_after_merge before the function has bound it, so every run that
\* found its parent ends there
AutomaticCurationMake(parent_sorting_id) ==
    /\ lastCurationCall' =
           CurationCall("AutomaticCuration.make",
                        IF \E r \in curationSortings : r.sorting_id = parent_sorting_id
                        THEN "UnboundLocalError" ELSE "fetch1",
                        parent_sorting_id, "", {}, {})
    /\ UNCHANGED <<groupVars, labVars, sortingVars, curationSortings, finalizedSortings,
                   lastDelete, storeVars, workspaceCuration, analysisFiles,
                   sortingFolders, curatedUnits, stageVars>>

\* the calls of insert_manual_curation that end before insert_sorting
ManualEndings == {"load_workspace", "remove", "save"}

\* unit_ids.remove(merged_unit) raises for a unit without entry in
\* labelsByUnit
RemoveRaises(labels) ==
    ~(NonPrimaryUnits(labels.mergeGroups) \subseteq DOMAIN labels.labelsByUnit)

\* labels after `del labels['labelsByUnit'][merged_unit]` for every
\* non-primary member of every merge group
LabelsAfterMerge(labels) ==
    [labels EXCEPT !.labelsByUnit =
        [u \in DOMAIN labels.labelsByUnit \ NonPrimaryUnits(labels.mergeGroups)
            |-> labels.labelsByUnit[u]]]

ManualCurationFolder(key) == <<key.sorting_id, "manual_curation">>

\* insert_manual_curation(key): key names the sorting that is curated
insert_manual_curation(key, sorting_id, ending) ==
    LET labels == workspaceCuration
        unit_ids == DOMAIN labels.labelsByUnit \ NonPrimaryUnits(labels.mergeGroups)
        clusters_merged == labels.mergeGroups # <<>>
        sorting_path == ManualCurationFolder(key)
        saved == \E f \in sortingFolders : f.sorting_path = sorting_path
        early == IF ending = "load_workspace" THEN "load_workspace"
                 ELSE IF clusters_merged /\ RemoveRaises(labels) THEN "remove"
                 ELSE IF saved THEN "save"
                 ELSE "none"
    IN /\ key \in curationSortings
       /\ ending \in ManualEndings => ending = early
       /\ IF early # "none"
          THEN /\ ending = early
               /\ lastCurationCall' =
                      CurationCall("insert_manual_curation", ending, key.sorting_id,
                                   "", {}, {})
               /\ UNCHANGED <<curationSortings, analysisFiles, sortingFolders, nextName>>
          ELSE /\ sortingFolders' = sortingFolders \cup
                      {SortingFolder(sorting_path,
                                     CuratedSortingUnits(labels.mergeGroups))}
               /\ insert_sorting("insert_manual_curation", key.sorting_path,
                                 key.sorting_id,
                                 CuratedSortingUnits(labels.mergeGroups),
                                 IF clusters_merged THEN <<>> ELSE quality_metrics,
                                 IF clusters_merged THEN LabelsAfterMerge(labels)
                                 ELSE labels,
                                 sorting_id, ending, unit_ids)
       /\ UNCHANGED <<groupVars, labVars, sortingVars, finalizedSortings, lastDelete,
                      dirs, workDirs, abortedRuns, lastStoreCall,
                      workspaceCuration, curatedUnits, stageVars>>

\* Where a run of common_spikesorting.CuratedSpikeSorting.make can end: at
\* one of its two early returns, at an exception before the analysis file
\* is created, at one after the row was inserted, or at its last line.
\* populate runs make in a transaction: an exception undoes the inserts.
CuratedMakeEndings == {"no_sorting", "no_accepted", "compute_metrics", "Unit.insert1",
                       "none"}

CuratedSpikeSortingMake(key, ending) ==
    LET labels == workspaceCuration
        unit_labels == labels.labelsByUnit
        accepted == RemoveMerged(accepted_units(unit_labels), labels.mergeGroups)
        units == CuratedSortingUnits(labels.mergeGroups) \cap accepted
        analysis_file_name == NewAnalysisFileName
        created == ending \in {"Unit.insert1", "none"}
    IN /\ key \in spikeSorting
       /\ Restrict(curatedSpikeSorting, [nwb_file_name |-> key.nwb_file_name,
                                         sort_group_id |-> key.sort_group_id]) = {}
       /\ ending \in CuratedMakeEndings
       /\ ending # "no_sorting" =>
              ((ending = "no_accepted") <=> (DOMAIN unit_labels = {} \/ accepted = {}))
       /\ created => nextName <= LastName
       /\ nextName' = IF created THEN nextName + 1 ELSE nextName
       /\ curatedSpikeSorting' =
              IF ending = "none"
              THEN curatedSpikeSorting \cup
                       {SortingRow(key.nwb_file_name, key.sort_group_id,
                                   analysis_file_name)}
              ELSE curatedSpikeSorting
       /\ analysisFiles' =
              IF ending = "none"
              THEN analysisFiles \cup
                       {AnalysisFile(analysis_file_name, units, RecomputedMetrics(accepted))}
              ELSE analysisFiles
       /\ curatedUnits' =
              IF ending = "none"
              THEN curatedUnits \cup {UnitRow(key, unit_id) : unit_id \in units}
              ELSE curatedUnits
       /\ lastCurationCall' =
              CurationCall("CuratedSpikeSorting.make", ending, "", "",
                           IF ending = "none" THEN units ELSE {},
                           IF ending = "no_sorting" THEN {} ELSE accepted)
       /\ UNCHANGED <<groupVars, labVars, spikeSorting, curationSortings,
                      finalizedSortings, lastDelete, dirs, workDirs, abortedRuns,
                      lastStoreCall, workspaceCuration, sortingFolders, stageVars>>

(***************************************************************************)
(* The curation specification: a stored root sorting "S_1", one           *)
(* SpikeSorting row without curated sorting, and a workspace whose labels  *)
(* and merge groups are drawn from the bounded sets.  AnalysisNwbfile has  *)
(* one name left to hand out.                                              *)
(***************************************************************************)
RootFolder == SortingFolder(<<"S_1", "sorting">>, UnitIds)

RootSorting == CuratedSortingRow("S_1", "", RootFolder.sorting_path, <<>>, <<>>, 1)

InitCuration ==
    /\ electrodes = AccessElectrodes
    /\ sortGroups = {SortGroupRow([nwb_file_name |-> k[1], sort_group_id |-> k[2],
                                   sort_reference_electrode_id |-> -1]) : k \in SortKeys}
    /\ sortGroupElectrodes =
           {SortGroupElectrodeRow(e.nwb_file_name, e.probe_shank, e) : e \in AccessElectrodes}
    /\ lastGroupCall = NoGroupCall
    /\ params = {ParametersRow(k[1], k[2], "t1") : k \in SortKeys}
    /\ teamMembers = {TeamMemberRow("t1", "m1")}
    /\ memberInfo = {MemberInfoRow("m1", "u1")}
    /\ spikeSorting = {SortingRow("s1", 0, 1)}
    /\ curatedSpikeSorting = {}
    /\ curationSortings = {RootSorting}
    /\ finalizedSortings = {}
    /\ lastDelete = NoDeleteCall
    /\ dirs = {}
    /\ workDirs = {}
    /\ nextName = LastName
    /\ abortedRuns = {}
    /\ lastStoreCall = NoStoreCall
    /\ workspaceCuration \in [labelsByUnit : LabelsByUnit, mergeGroups : MergeGroupLists]
    /\ analysisFiles = {AnalysisFile(1, UnitIds, <<>>)}
    /\ sortingFolders = {RootFolder}
    /\ curatedUnits = {}
    /\ lastCurationCall = NoCurationCall
    /\ IdleStages

NextCuration ==
    \/ \E parent_sorting_id \in SortingIds : AutomaticCurationMake(parent_sorting_id)
    \/ \E folder \in sortingFolders, parent_sorting_id \in SortingIds \cup {""},
          sorting_id \in SortingIds, ending \in InsertEndings :
           InsertSorting(folder, parent_sorting_id, sorting_id, ending)
    \/ \E key \in curationSortings, sorting_id \in SortingIds,
          ending \in ManualEndings \cup InsertEndings :
           insert_manual_curation(key, sorting_id, ending)
    \/ \E key \in spikeSorting, ending \in CuratedMakeEndings :
           CuratedSpikeSortingMake(key, ending)

SpecCuration == InitCuration /\ [][NextCuration]_vars

(***************************************************************************)
(* The Unit part table: the loop at the end of CuratedSpikeSorting.make    *)
(* of common_spikesorting.py that turns the units table of the analysis    *)
(* file into Unit rows.                                                    *)
(***************************************************************************)
\* unit_properties of make, the secondary attributes of Unit
unit_properties ==
    <<"label", "nn_hit_rate", "noise_overlap", "isi_violation", "firing_rate",
      "num_spikes">>

\* the defaults the definition of Unit declares
UnitDefaults ==
    [label |-> "", noise_overlap |-> -1, nn_hit_rate |-> -1, isi_violation |-> -1,
     firing_rate |-> -1, num_spikes |-> -1]

\* A metric cell of the units data frame holds <<v>> for the number v and
\* NaN when the file has no number for the unit; a label cell holds a string.
NaN == <<>>

MetricCells(unit_id) == {NaN, <<unit_id>>}

LabelCells == {"accept", "accept,mua"}

\* a data frame: its columns, the label cell of each row (read only when
\* "label" is a column) and the metric cells of each row
UnitsTable(columns, label, metrics) ==
    [columns |-> columns, label |-> label, metrics |-> metrics]

\* the data frames (CuratedSpikeSorting & key).fetch_nwb()[0]['units'] can
\* give: at most MaxTableUnits units and at most MaxColumns of the
\* properties as columns
UnitsTables ==
    UNION {UNION {
        {UnitsTable(columns, label, metrics) :
            label \in (IF "label" \in columns THEN [unit_ids -> LabelCells]
                       ELSE {[u \in unit_ids |-> ""]}),
            metrics \in {m \in [unit_ids -> [columns \ {"label"} ->
                                   UNION {MetricCells(u) : u \in unit_ids}]] :
                           \A u \in unit_ids : \A c \in columns \ {"label"} :
                              m[u][c] \in MetricCells(u)}} :
        columns \in {C \in SUBSET Range(unit_properties) : Cardinality(C) <= MaxColumns}} :
      unit_ids \in {S \in SUBSET UnitIds : Cardinality(S) <= MaxTableUnits}}

\* unit[property] of a row of the data frame
Cell(table, unit_id, property) ==
    IF property = "label" THEN table.label[unit_id] ELSE table.metrics[unit_id][property]

\* the test `property in unit` on a row that is never tested: a cell that
\* is NaN counts as absent
HasProperty_NotNaN(table, unit_id, property) ==
    /\ property \in table.columns
    /\ (property = "label" \/ Cell(table, unit_id, property) # NaN)

\* `property in unit`: unit is a row of the data frame, a Series indexed by
\* the columns
HasProperty(table, unit_id, property) == property \in table.columns

\* unit_key[name] = value
SetItem(unit_key, name, value) ==
    [x \in DOMAIN unit_key \cup {name} |-> IF x = name THEN value ELSE unit_key[x]]

RECURSIVE CopyProperties(_, _, _, _)
\* the loop `for property in unit_properties` on unit_key
CopyProperties(table, unit_id, properties, unit_key) ==
    IF properties = <<>> THEN unit_key
    ELSE LET property == Head(properties)
         IN CopyProperties(table, unit_id, Tail(properties),
                IF HasProperty(table, unit_id, property)
                THEN SetItem(unit_key, property, Cell(table, unit_id, property))
                ELSE unit_key)

\* Unit.insert1(unit_key): an attribute the key does not hold, and a
\* numeric one that is NaN, gets the default of the definition
InsertedUnit(unit_key) ==
    [a \in DOMAIN unit_key \cup DOMAIN UnitDefaults |->
        IF a \notin DOMAIN UnitDefaults THEN unit_key[a]
        ELSE IF a \notin DOMAIN unit_key THEN UnitDefaults[a]
        ELSE IF a = "label" THEN unit_key[a]
        ELSE IF unit_key[a] = NaN THEN UnitDefaults[a]
        ELSE unit_key[a][1]]

RECURSIVE UnitLoop(_, _, _, _)
\* the loop `for unit_num, unit in units_table.iterrows()`: unit_key is
\* the one dictionary key, carried from row to row
UnitLoop(table, unit_nums, unit_key, inserted) ==
    IF unit_nums = <<>> THEN inserted
    ELSE LET unit_num == Head(unit_nums)
             key1 == CopyProperties(table, unit_num, unit_properties,
                                    SetItem(unit_key, "unit_id", unit_num))
         IN UnitLoop(table, Tail(unit_nums), key1, inserted \cup {InsertedUnit(key1)})

\* the primary key of the master row as the dictionary `key`
MasterKey(key) ==
    [x \in {"nwb_file_name", "sort_group_id"} |->
        IF x = "nwb_file_name" THEN key.nwb_file_name ELSE key.sort_group_id]

\* the last lines of make: the units table of the stored curated sorting is
\* read back and a Unit row inserted for each of its rows
InsertUnits(key, table) ==
    /\ key \in curatedSpikeSorting
    /\ unitsTable = NoUnitsTable
    /\ table \in UnitsTables
    /\ unitsTable' = table
    /\ curatedUnits' = UnitLoop(table, SortedSeq(DOMAIN table.label), MasterKey(key), {})
    /\ UNCHANGED <<groupVars, labVars, sortingVars, curationSortings, finalizedSortings,
                   lastDelete, storeVars, workspaceCuration, analysisFiles,
                   sortingFolders, lastCurationCall, workspaces, metricDict,
                   geometryCall, callVars>>

\* one stored curated sorting whose Unit rows are still to be inserted
InitUnits ==
    /\ electrodes = AccessElectrodes
    /\ sortGroups = {SortGroupRow([nwb_file_name |-> k[1], sort_group_id |-> k[2],
                                   sort_reference_electrode_id |-> -1]) : k \in SortKeys}
    /\ sortGroupElectrodes =
           {SortGroupElectrodeRow(e.nwb_file_name, e.probe_shank, e) : e \in AccessElectrodes}
    /\ lastGroupCall = NoGroupCall
    /\ params = {ParametersRow(k[1], k[2], "t1") : k \in SortKeys}
    /\ teamMembers = {TeamMemberRow("t1", "m1")}
    /\ memberInfo = {MemberInfoRow("m1", "u1")}
    /\ spikeSorting = {SortingRow("s1", 0, 1)}
    /\ curatedSpikeSorting = {SortingRow("s1", 0, 2)}
    /\ curationSortings = {}
    /\ finalizedSortings = {}
    /\ lastDelete = NoDeleteCall
    /\ EmptyStore
    /\ NoArtifacts

NextUnits ==
    \E key \in curatedSpikeSorting, table \in UnitsTables : InsertUnits(key, table)

SpecUnits == InitUnits /\ [][NextUnits]_vars

(***************************************************************************)
(* Metric configurations: SpikeSortingMetrics.validate_metrics_list and    *)
(* the runs of SpikeSorting.make under a metric_dict a user inserted.      *)
(***************************************************************************)
\* the names a user may put into a metric_dict: those of the catalog and
\* one the catalog does not have
MetricNames == metrics_list \cup {"isolation_score"}

\* the metric_dict values of a SpikeSortingMetrics row: at most MaxMetrics
\* names, each set to True or False
MetricDicts ==
    UNION {[D -> BOOLEAN] : D \in {S \in SUBSET MetricNames : Cardinality(S) <= MaxMetrics}}

\* get_metric_dict(): every metric of the catalog, set to False
get_metric_dict == [metric \in metrics_list |-> FALSE]

\* validate_metrics_list(key): True unless a name of the metric_dict is no
\* key of get_metric_dict(); the function prints and returns, it raises
\* nothing
validate_metrics_list(metric_dict) ==
    \A metric \in DOMAIN metric_dict : metric \in DOMAIN get_metric_dict

\* a user calls validate_metrics_list on the row
ValidateMetricsList ==
    /\ lastStoreCall' =
           [StoreCall("validate_metrics_list", "not asked", {}, {}, {}, "none")
              EXCEPT !.valid = validate_metrics_list(metricDict)]
    /\ UNCHANGED <<groupVars, labVars, sortingVars, curationVars, lastDelete,
                   dirs, workDirs, nextName, abortedRuns, stageVars>>

\* no sorting stored, one analysis file name left to hand out, the row of
\* SpikeSortingMetrics with a metric_dict of the bounded set
InitMetrics ==
    /\ electrodes = AccessElectrodes
    /\ sortGroups = {SortGroupRow([nwb_file_name |-> k[1], sort_group_id |-> k[2],
                                   sort_reference_electrode_id |-> -1]) : k \in SortKeys}
    /\ sortGroupElectrodes =
           {SortGroupElectrodeRow(e.nwb_file_name, e.probe_shank, e) : e \in AccessElectrodes}
    /\ lastGroupCall = NoGroupCall
    /\ params = {ParametersRow(k[1], k[2], "t1") : k \in SortKeys}
    /\ teamMembers = {TeamMemberRow("t1", "m1")}
    /\ memberInfo = {MemberInfoRow("m1", "u1")}
    /\ spikeSorting = {}
    /\ curatedSpikeSorting = {}
    /\ curationSortings = {}
    /\ finalizedSortings = {}
    /\ lastDelete = NoDeleteCall
    /\ dirs = {}
    /\ workDirs = {}
    /\ nextName = LastName
    /\ abortedRuns = {}
    /\ lastStoreCall = NoStoreCall
    /\ workspaceCuration = [labelsByUnit |-> <<>>, mergeGroups |-> <<>>]
    /\ analysisFiles = {}
    /\ sortingFolders = {}
    /\ curatedUnits = {}
    /\ lastCurationCall = NoCurationCall
    /\ unitsTable = NoUnitsTable
    /\ workspaces = {}
    /\ metricDict \in MetricDicts
    /\ geometryCall = NoGeometryCall
    /\ IdleCalls

NextMetrics ==
    \/ \E key \in params, sort_interval \in SortIntervals, ending \in MakeEndings :
           make(key, sort_interval, ending)
    \/ ValidateMetricsList

SpecMetrics == InitMetrics /\ [][NextMetrics]_vars

(***************************************************************************)
(* SortGroup.get_geometry.                                                 *)
(***************************************************************************)
\* tmp_geom: a row [rel_x, rel_y, rel_z] of Probe.Electrode for each member
\* electrode of the sort group, in the order of the fetch
TmpGeoms ==
    UNION {[1 .. n_chan -> [1 .. 3 -> 0 .. MaxCoordinate]] : n_chan \in 1 .. MaxChannels}

\* np.nonzero(tmp_geom[:, i]): the 0-based indices of the rows whose entry
\* in column i is not zero
nonzero(tmp_geom, i) == {row - 1 : row \in {r \in DOMAIN tmp_geom : tmp_geom[r][i] # 0}}

\* np.any of an array of indices: is one of the indices not zero?
any(indices) == \E index \in indices : index # 0

\* geometry[:, n_found] = tmp_geom[:, i]
SetColumn(geometry, n_found, tmp_geom, i) ==
    [row \in DOMAIN geometry |->
        [col \in 1 .. 2 |-> IF col = n_found + 1 THEN tmp_geom[row][i]
                            ELSE geometry[row][col]]]

RECURSIVE ColumnLoop(_, _, _, _)
\* the loop `for i in range(3)` (columns counted from 1 here)
ColumnLoop(tmp_geom, i, n_found, geometry) ==
    IF i > 3 THEN geometry
    ELSE IF any(nonzero(tmp_geom, i)) /\ n_found < 2
         THEN ColumnLoop(tmp_geom, i + 1, n_found + 1,
                         SetColumn(geometry, n_found, tmp_geom, i))
         ELSE ColumnLoop(tmp_geom, i + 1, n_found, geometry)

\* get_geometry on a sort group whose member electrodes have the positions
\* tmp_geom
get_geometry(tmp_geom) ==
    ColumnLoop(tmp_geom, 1, 0, [row \in DOMAIN tmp_geom |-> [col \in 1 .. 2 |-> 0]])

GetGeometry(tmp_geom) ==
    /\ geometryCall' = [tmp_geom |-> tmp_geom, geometry |-> get_geometry(tmp_geom)]
    /\ UNCHANGED <<groupVars, labVars, sortingVars, curationVars, lastDelete, storeVars,
                   unitsTable, workspaces, metricDict, callVars>>

\* the sort groups of the sessions stored, get_geometry not yet called
InitGeometry ==
    /\ electrodes = AccessElectrodes
    /\ sortGroups = {SortGroupRow([nwb_file_name |-> k[1], sort_group_id |-> k[2],
                                   sort_reference_electrode_id |-> -1]) : k \in SortKeys}
    /\ sortGroupElectrodes =
           {SortGroupElectrodeRow(e.nwb_file_name, e.probe_shank, e) : e \in AccessElectrodes}
    /\ lastGroupCall = NoGroupCall
    /\ params = {}
    /\ teamMembers = {}
    /\ memberInfo = {}
    /\ spikeSorting = {}
    /\ curatedSpikeSorting = {}
    /\ curationSortings = {}
    /\ finalizedSortings = {}
    /\ lastDelete = NoDeleteCall
    /\ EmptyStore
    /\ NoArtifacts

NextGeometry == \E tmp_geom \in TmpGeoms : GetGeometry(tmp_geom)

SpecGeometry == InitGeometry /\ [][NextGeometry]_vars

(***************************************************************************)
(* SortGroup.set_reference_from_list.                                      *)
(***************************************************************************)
\* the rows [sort_group_id, reference_electrode] a list may hold
RefListRows == {0, 1} \X {-1, 1}

\* the lists handed to set_reference_from_list: at most MaxRefListLen
\* rows, no sort group named twice
SortGroupRefLists ==
    {l \in UNION {[1 .. n -> RefListRows] : n \in 1 .. MaxRefListLen} :
        \A i, j \in DOMAIN l : l[i][1] = l[j][1] => i = j}

\* set_reference_from_list(nwb_file_name, sort_group_ref_list).  The one
\* statement of the loop hands SortGroupElectrode().insert what dj_replace
\* makes of sort_group_list, the array of the sort group ids of the session:
\* nothing in it is a row of the part table, the call raises in the first
\* round of the loop, and no statement of the function writes to SortGroup.
\* A session without sort groups has no round of the loop.
set_reference_from_list(nwb_file_name, sort_group_ref_list) ==
    LET sort_group_list == {g.sort_group_id : g \in Restrict(sortGroups,
                                [nwb_file_name |-> nwb_file_name])}
    IN /\ lastGroupCall' =
              [NoGroupCall EXCEPT !.op = "set_reference_from_list",
                                  !.nwb_file_name = nwb_file_name,
                                  !.raised = sort_group_list # {},
                                  !.sort_group_ref_list = sort_group_ref_list]
       /\ UNCHANGED <<electrodes, sortGroups, sortGroupElectrodes, labVars, sortingVars,
                      curationVars, lastDelete, storeVars, stageVars>>

\* the sort groups of "s1" with references of their own, "s2" with or
\* without its sort group
InitReference ==
    /\ electrodes = AccessElectrodes
    /\ \E ref \in [{0, 1} -> ReferenceValues], others \in SUBSET {<<"s2", 0>>} :
          /\ sortGroups =
                {SortGroupRow([nwb_file_name |-> "s1", sort_group_id |-> id,
                               sort_reference_electrode_id |-> ref[id]]) : id \in {0, 1}}
                \cup {SortGroupRow([nwb_file_name |-> k[1], sort_group_id |-> k[2]]) :
                        k \in others}
          /\ sortGroupElectrodes =
                {SortGroupElectrodeRow(e.nwb_file_name, e.probe_shank, e) :
                    e \in {a \in AccessElectrodes :
                             a.nwb_file_name = "s1" \/ others # {}}}
    /\ lastGroupCall = NoGroupCall
    /\ params = {}
    /\ teamMembers = {}
    /\ memberInfo = {}
    /\ spikeSorting = {}
    /\ curatedSpikeSorting = {}
    /\ curationSortings = {}
    /\ finalizedSortings = {}
    /\ lastDelete = NoDeleteCall
    /\ EmptyStore
    /\ NoArtifacts

NextReference ==
    \E nwb_file_name \in Sessions, sort_group_ref_list \in SortGroupRefLists :
        set_reference_from_list(nwb_file_name, sort_group_ref_list)

SpecReference == InitReference /\ [][NextReference]_vars

(***************************************************************************)
(* SpikeSorting.get_filtered_recording_extractor: the channels the         *)
(* recording is sliced to and the reference subtracted from them.          *)
(***************************************************************************)
\* electrode_ids: the electrode ids of the rows of SortGroupElectrode with
\* the session and sort group of the key, in the order of the primary key
electrode_ids(key) ==
    SortedSeq({m.electrode_id :
                  m \in Restrict(sortGroupElectrodes,
                                 [nwb_file_name |-> key.nwb_file_name,
                                  sort_group_id |-> key.sort_group_id])})

\* sort_reference_electrode_id: the reference of the SortGroup row of the key
sort_reference_electrode_id(key) ==
    LET row == CHOOSE g \in Restrict(sortGroups,
                                     [nwb_file_name |-> key.nwb_file_name,
                                      sort_group_id |-> key.sort_group_id]) : TRUE
    IN row.sort_reference_electrode_id

\* the test at 'if sort_reference_electrode_id >= 0' failing for electrode 0
HasReferenceElectrode_Positive(reference_id) == reference_id > 0

\* if sort_reference_electrode_id >= 0: both tests of the function
HasReferenceElectrode(reference_id) == reference_id >= 0

\* the recording extractor the function returns for a key whose sort
\* indices pass the assertion: what it was sliced to, the common reference
\* applied, the channels left and the band-pass filter
FilteredRecording(key, indices) ==
    LET ids == electrode_ids(key)
        reference_id == sort_reference_electrode_id(key)
        channel_ids == IF HasReferenceElectrode(reference_id)
                       THEN Append(ids, reference_id) ELSE ids
    IN [called |-> TRUE, nwb_file_name |-> key.nwb_file_name,
        sort_group_id |-> key.sort_group_id, sort_indices |-> indices,
        error |-> "none", sliced |-> channel_ids,
        reference |-> IF HasReferenceElectrode(reference_id) THEN "single"
                      ELSE IF reference_id = -2 THEN "median" ELSE "none",
        ref_channels |-> IF HasReferenceElectrode(reference_id)
                         THEN {reference_id} ELSE {},
        channel_ids |-> IF HasReferenceElectrode(reference_id) THEN ids
                        ELSE channel_ids,
        bandpass_filter |-> TRUE]

\* get_filtered_recording_extractor(key) for a key with its SortGroup row and
\* member electrodes; sort_interval is what the SortInterval row holds.  The
\* call ends at the assertion when the sort indices fail it.
get_filtered_recording_extractor(key, sort_interval) ==
    LET indices == sort_indices[sort_interval]
    IN /\ Restrict(sortGroups, [nwb_file_name |-> key.nwb_file_name,
                                sort_group_id |-> key.sort_group_id]) # {}
       /\ electrode_ids(key) # <<>>
       /\ recordingCall' =
             IF SortIndicesValid(indices)
             THEN FilteredRecording(key, indices)
             ELSE [NoRecordingCall EXCEPT !.called = TRUE,
                                          !.nwb_file_name = key.nwb_file_name,
                                          !.sort_group_id = key.sort_group_id,
                                          !.sort_indices = indices,
                                          !.error = "AssertionError"]
       /\ UNCHANGED <<groupVars, labVars, sortingVars, curationVars, lastDelete,
                      storeVars, unitsTable, workspaces, metricDict, geometryCall,
                      artifactCall, ruleCall, runsInProgress, labelCall,
                      inclusionCall>>

\* the sort groups of the stored sessions, each with a reference of the
\* bounded set: electrode 0 is a member of sort group 0 of "s1" and of "s2"
\* and no member of sort group 1 of "s1"
InitRecording ==
    /\ electrodes = AccessElectrodes
    /\ \E ref \in [SortKeys -> ReferenceValues] :
          sortGroups = {SortGroupRow([nwb_file_name |-> k[1], sort_group_id |-> k[2],
                                      sort_reference_electrode_id |-> ref[k]]) :
                           k \in SortKeys}
    /\ sortGroupElectrodes =
           {SortGroupElectrodeRow(e.nwb_file_name, e.probe_shank, e) : e \in AccessElectrodes}
    /\ lastGroupCall = NoGroupCall
    /\ params = {ParametersRow(k[1], k[2], "t1") : k \in SortKeys}
    /\ teamMembers = {TeamMemberRow("t1", "m1")}
    /\ memberInfo = {MemberInfoRow("m1", "u1")}
    /\ spikeSorting = {}
    /\ curatedSpikeSorting = {}
    /\ curationSortings = {}
    /\ finalizedSortings = {}
    /\ lastDelete = NoDeleteCall
    /\ EmptyStore
    /\ NoArtifacts

NextRecording ==
    \E key \in params, sort_interval \in SortIntervals :
        get_filtered_recording_extractor(key, sort_interval)

SpecRecording == InitRecording /\ [][NextRecording]_vars

(***************************************************************************)
(* Artifact detection: SpikeSortingArtifactParameters.get_no_artifact_times *)
(* and the statements of SpikeSorting.make that call it.                   *)
(***************************************************************************)
\* the thresholds a parameter_dict may hold
Thresholds == {-1, 0, 1}

ParameterDicts ==
    {ParameterDict(skip, zscore_thresh, amplitude_thresh) :
        skip \in BOOLEAN, zscore_thresh \in Thresholds, amplitude_thresh \in Thresholds}

\* recording._timestamps = timestamps[sort_indices[0]:sort_indices[1]]
recording_timestamps(indices) == SubSeq(timestamps, indices[1] + 1, indices[2])

\* recording.get_num_frames(): the frames from start_frame to end_frame
get_num_frames(indices) == indices[2] - indices[1]

\* a[i] for the 0-based index i of numpy: is it an entry of a?
InBounds(a, i) == (i + 1) \in DOMAIN a

\* get_no_artifact_times(recording, zscore_thresh, amplitude_thresh, ...)
\* called on an instance.  Without thresholds it indexes the timestamps at
\* get_num_frames(); with a threshold it reads data.shape on line 469,
\* before data is assigned on line 471.
get_no_artifact_times(indices, zscore_thresh, amplitude_thresh) ==
    LET ts == recording_timestamps(indices)
        last == get_num_frames(indices)
    IN IF zscore_thresh <= 0 /\ amplitude_thresh <= 0
       THEN IF InBounds(ts, 0) /\ InBounds(ts, last)
            THEN [error |-> "none", returned |-> <<ts[1], ts[last + 1]>>]
            ELSE [error |-> "IndexError", returned |-> <<>>]
       ELSE [error |-> "UnboundLocalError", returned |-> <<>>]

\* a call of get_no_artifact_times on an instance of the table
GetNoArtifactTimes(sort_interval, parameter_dict) ==
    LET indices == sort_indices[sort_interval]
        res == get_no_artifact_times(indices, parameter_dict.zscore_thresh,
                                     parameter_dict.amplitude_thresh)
    IN /\ SortIndicesValid(indices)
       /\ artifactCall' =
             [NoArtifactCall EXCEPT !.op = "get_no_artifact_times",
                                    !.parameter_dict = parameter_dict,
                                    !.sort_indices = indices,
                                    !.error = res.error,
                                    !.returned = res.returned]
       /\ UNCHANGED <<groupVars, labVars, sortingVars, curationVars, lastDelete,
                      storeVars, unitsTable, workspaces, metricDict, geometryCall,
                      recordingCall, ruleCall, runsInProgress, labelCall,
                      inclusionCall>>

\* lines 556-571 of make.  With skip set the statements under the if are
\* not run.  Otherwise get_no_artifact_times is called on the class with
\* the recording as its one positional argument: the recording is bound to
\* self, the parameter recording is left without a value and the call
\* raises a TypeError before the body of the function runs.
ArtifactStep(sort_interval, parameter_dict) ==
    LET indices == sort_indices[sort_interval]
    IN /\ SortIndicesValid(indices)
       /\ artifactCall' =
             [NoArtifactCall EXCEPT !.op = "make",
                                    !.parameter_dict = parameter_dict,
                                    !.sort_indices = indices,
                                    !.error = IF parameter_dict.skip THEN "none"
                                              ELSE "TypeError"]
       /\ UNCHANGED <<groupVars, labVars, sortingVars, curationVars, lastDelete,
                      storeVars, unitsTable, workspaces, metricDict, geometryCall,
                      recordingCall, ruleCall, runsInProgress, labelCall,
                      inclusionCall>>

NextArtifact ==
    \/ \E sort_interval \in SortIntervals, parameter_dict \in ParameterDicts :
           GetNoArtifactTimes(sort_interval, parameter_dict)
    \/ \E sort_interval \in SortIntervals, parameter_dict \in ParameterDicts :
           ArtifactStep(sort_interval, parameter_dict)

SpecArtifact == InitRecording /\ [][NextArtifact]_vars

(***************************************************************************)
(* The rules of AutomaticCuration: _sorting_after_reject and               *)
(* _sorting_after_merge, and AutomaticCuration.make which applies them.    *)
(***************************************************************************)
\* quality_metrics['isi_violation']: the fraction of every unit, in tenths
IsiViolations == [UnitIds -> {0, 1, 2}]

\* reject_params: the empty dict or a dict with the threshold, in tenths
RejectParams == {[k \in D |-> 1] : D \in SUBSET {"isi_violation_frac_threshold"}}

\* merge_params: the empty dict or a dict with a parameter
MergeParams == {[k \in D |-> 1] : D \in SUBSET {"merge_param"}}

\* _sorting_after_reject(sorting, quality_metrics, reject_params).  The
\* threshold is read from reject_params by its key (line 116), which an
\* empty dict lacks; the comparison on line 119 then names
\* isi_violation_rate_threshold, which nothing binds, and is evaluated for
\* the first unit of the sorting.
sorting_after_reject(units, isi_violation, reject_params) ==
    IF "isi_violation_frac_threshold" \notin DOMAIN reject_params
    THEN [error |-> "KeyError", returned |-> "none", sorting |-> {}]
    ELSE IF units # {}
         THEN [error |-> "NameError", returned |-> "none", sorting |-> {}]
         ELSE [error |-> "none", returned |-> "sorting", sorting |-> {}]

\* _sorting_after_merge(sorting, quality_metrics, merge_params): the pair
\* (sorting, False) for an empty dict, else the class NotImplementedError,
\* returned and not raised
sorting_after_merge(units, merge_params) ==
    IF DOMAIN merge_params = {}
    THEN [error |-> "none", returned |-> "pair", sorting |-> units,
          units_merged |-> FALSE]
    ELSE [error |-> "none", returned |-> "NotImplementedError", sorting |-> {},
          units_merged |-> FALSE]

SortingAfterReject(units, isi_violation, reject_params) ==
    LET res == sorting_after_reject(units, isi_violation, reject_params)
    IN /\ ruleCall' =
             [NoRuleCall EXCEPT !.op = "_sorting_after_reject",
                                !.units = units,
                                !.isi_violation = isi_violation,
                                !.params = reject_params,
                                !.error = res.error,
                                !.returned = res.returned,
                                !.sorting = res.sorting]
       /\ UNCHANGED <<groupVars, labVars, sortingVars, curationVars, lastDelete,
                      storeVars, unitsTable, workspaces, metricDict, geometryCall,
                      recordingCall, artifactCall, runsInProgress, labelCall,
                      inclusionCall>>

SortingAfterMerge(units, merge_params) ==
    LET res == sorting_after_merge(units, merge_params)
    IN /\ ruleCall' =
             [NoRuleCall EXCEPT !.op = "_sorting_after_merge",
                                !.units = units,
                                !.params = merge_params,
                                !.error = res.error,
                                !.returned = res.returned,
                                !.sorting = res.sorting,
                                !.units_merged = res.units_merged]
       /\ UNCHANGED <<groupVars, labVars, sortingVars, curationVars, lastDelete,
                      storeVars, unitsTable, workspaces, metricDict, geometryCall,
                      recordingCall, artifactCall, runsInProgress, labelCall,
                      inclusionCall>>

\* the stored root sorting "S_1" and an unlabelled workspace
InitRules ==
    /\ InitCuration
    /\ workspaceCuration = [labelsByUnit |-> <<>>, mergeGroups |-> <<>>]

NextRules ==
    \/ \E parent_sorting_id \in SortingIds : AutomaticCurationMake(parent_sorting_id)
    \/ \E units \in SUBSET UnitIds, isi_violation \in IsiViolations,
          reject_params \in RejectParams :
           SortingAfterReject(units, isi_violation, reject_params)
    \/ \E units \in SUBSET UnitIds, merge_params \in MergeParams :
           SortingAfterMerge(units, merge_params)

SpecRules == InitRules /\ [][NextRules]_vars

(***************************************************************************)
(* SpikeSorting.make run next to nightly_cleanup: the statements of make   *)
(* up to os.mkdir, the writing of the recording into the directory, and    *)
(* the statements behind it are steps another process can come between.    *)
(***************************************************************************)
\* a run of make that has not ended: pc names the statement it is at
RunInProgress(key, sort_interval, analysis_file_name, pc) ==
    [key |-> <<key.nwb_file_name, key.sort_group_id>>, sort_interval |-> sort_interval,
     analysis_file_name |-> analysis_file_name, pc |-> pc]

\* what a run that ended leaves in lastStoreCall
EndedRun(run, ending) ==
    [StoreCall("make", "not asked", {}, {}, {}, ending)
        EXCEPT !.key = run.key,
               !.sort_interval = run.sort_interval,
               !.sort_indices = sort_indices[run.sort_interval],
               !.analysis_file_name = run.analysis_file_name,
               !.run_sorter_calls =
                   IF ending = "write_recording" THEN 0 ELSE run_sorter_calls(ending),
               !.compute_metrics_calls =
                   IF ending \in FromComputeMetrics THEN 1 ELSE 0,
               !.metric_names =
                   IF ending \in FromComputeMetrics
                   THEN selected_metrics_list(metricDict) ELSE {}]

\* lines 543-583 of make: the analysis file is created, the recording
\* prepared, the directory of the run made.  A run that ends before the
\* directory is made ends within the step.
MakeBegin(key, sort_interval, ending) ==
    /\ key \in params
    /\ Restrict(spikeSorting, [nwb_file_name |-> key.nwb_file_name,
                               sort_group_id |-> key.sort_group_id]) = {}
    /\ ~\E run \in runsInProgress : run.key = <<key.nwb_file_name, key.sort_group_id>>
    /\ nextName <= LastName
    /\ ending \in BeforeDirectory \cup {"none"}
    /\ (ending = "sort_indices") <=> ~SortIndicesValid(sort_indices[sort_interval])
    /\ LET analysis_file_name == NewAnalysisFileName
           run == RunInProgress(key, sort_interval, analysis_file_name, "write_recording")
       IN /\ nextName' = nextName + 1
          /\ dirs' = IF ending \in BeforeDirectory
                     THEN dirs ELSE dirs \cup {analysis_file_name}
          /\ runsInProgress' = IF ending \in BeforeDirectory
                               THEN runsInProgress ELSE runsInProgress \cup {run}
          /\ lastStoreCall' = IF ending \in BeforeDirectory
                              THEN EndedRun(run, ending) ELSE lastStoreCall
    /\ UNCHANGED <<groupVars, labVars, sortingVars, curationVars, lastDelete, workDirs,
                   abortedRuns, unitsTable, workspaces, metricDict, geometryCall,
                   recordingCall, artifactCall, ruleCall, labelCall,
                      inclusionCall>>

\* line 598: the recording is written to a file in the directory of the
\* run, which raises when the directory is not there
MakeWriteRecording(run) ==
    /\ run \in runsInProgress
    /\ run.pc = "write_recording"
    /\ IF run.analysis_file_name \in dirs
       THEN /\ runsInProgress' =
                   (runsInProgress \ {run}) \cup {[run EXCEPT !.pc = "run_sorter"]}
            /\ UNCHANGED <<abortedRuns, lastStoreCall>>
       ELSE /\ runsInProgress' = runsInProgress \ {run}
            /\ abortedRuns' = abortedRuns \cup {run.analysis_file_name}
            /\ lastStoreCall' = EndedRun(run, "write_recording")
    /\ UNCHANGED <<groupVars, labVars, sortingVars, curationVars, lastDelete, dirs,
                   workDirs, nextName, unitsTable, workspaces, metricDict, geometryCall,
                   recordingCall, artifactCall, ruleCall, labelCall,
                      inclusionCall>>

\* lines 600-719: the sorter, the metrics, the workspace and
\* kp.store_json, where the run ends at the latest: self.insert1(key) is
\* not reached, with the directory of the run on disk or without it
MakeFinish(run, ending) ==
    /\ run \in runsInProgress
    /\ run.pc = "run_sorter"
    /\ ending \in MakeEndings \ BeforeDirectory
    /\ runsInProgress' = runsInProgress \ {run}
    /\ abortedRuns' = abortedRuns \cup {run.analysis_file_name}
    /\ workspaces' =
           LET workspace_name == run.analysis_file_name
           IN IF ending \in AfterWorkspace /\ ~WorkspaceFiled(workspace_name)
              THEN workspaces \cup
                       {Workspace(workspace_name,
                                  [nwb_file_name |-> run.key[1],
                                   sort_group_id |-> run.key[2]])}
              ELSE workspaces
    /\ lastStoreCall' = EndedRun(run, ending)
    /\ UNCHANGED <<groupVars, labVars, sortingVars, curationVars, lastDelete, dirs,
                   workDirs, nextName, unitsTable, metricDict, geometryCall,
                   recordingCall, artifactCall, ruleCall, labelCall,
                      inclusionCall>>

\* the sorting of ("s2", 0) stored with its directory, the sort groups of
\* "s1" not yet sorted, two analysis file names left to hand out
InitInterleaved ==
    /\ electrodes = AccessElectrodes
    /\ sortGroups = {SortGroupRow([nwb_file_name |-> k[1], sort_group_id |-> k[2],
                                   sort_reference_electrode_id |-> -1]) : k \in SortKeys}
    /\ sortGroupElectrodes =
           {SortGroupElectrodeRow(e.nwb_file_name, e.probe_shank, e) : e \in AccessElectrodes}
    /\ lastGroupCall = NoGroupCall
    /\ params = {ParametersRow(k[1], k[2], "t1") : k \in SortKeys}
    /\ teamMembers = {TeamMemberRow("t1", "m1")}
    /\ memberInfo = {MemberInfoRow("m1", "u1")}
    /\ spikeSorting = {SortingRow("s2", 0, StoredRunOf(<<"s2", 0>>))}
    /\ curatedSpikeSorting = {}
    /\ curationSortings = {}
    /\ finalizedSortings = {}
    /\ NoArtifacts
    /\ lastDelete = NoDeleteCall
    /\ dirs = {StoredRunOf(<<"s2", 0>>)}
    /\ workDirs = {}
    /\ nextName = LastName - 1
    /\ abortedRuns = {}
    /\ lastStoreCall = NoStoreCall

NextInterleaved ==
    \/ \E key \in params, sort_interval \in SortIntervals,
          ending \in BeforeDirectory \cup {"none"} :
           MakeBegin(key, sort_interval, ending)
    \/ \E run \in runsInProgress : MakeWriteRecording(run)
    \/ \E run \in runsInProgress, ending \in MakeEndings : MakeFinish(run, ending)
    \/ nightly_cleanup

SpecInterleaved == InitInterleaved /\ [][NextInterleaved]_vars

(***************************************************************************)
(* CuratedSpikeSorting.make of common_spikesorting, lines 1089-1156: the   *)
(* accepted units and their labels in the order the workspace lists them,  *)
(* the units in the order the sorting lists them, and the sort interval    *)
(* read from the units table of the parent sorting.                        *)
(***************************************************************************)
\* the label lists a unit may carry, in the order the workspace holds them
LabelSequences == {<<"accept">>, <<"accept", "mua">>, <<"reject">>}

\* the sort interval the rows of the parent's units table hold
ParentSortInterval == <<0, 2001>>

RECURSIVE join(_)
\* ','.join(labels)
join(labels) ==
    IF labels = <<>> THEN ""
    ELSE IF Len(labels) = 1 THEN labels[1]
    ELSE labels[1] \o "," \o join(Tail(labels))

RECURSIVE AcceptedInOrder(_, _)
\* the loop over unit_labels: the units with 'accept' among their labels,
\* in the order the dict lists its keys
AcceptedInOrder(order, unit_labels) ==
    IF order = <<>> THEN <<>>
    ELSE LET unitId == Head(order)
             rest == AcceptedInOrder(Tail(order), unit_labels)
         IN IF "accept" \in Range(unit_labels[unitId]) THEN <<unitId>> \o rest ELSE rest

RECURSIVE Without(_, _)
\* accepted_units.remove(cell) for every cell of cells
Without(list, cells) ==
    IF list = <<>> THEN <<>>
    ELSE IF Head(list) \in cells THEN Without(Tail(list), cells)
    ELSE <<Head(list)>> \o Without(Tail(list), cells)

RECURSIVE RemoveMergedInOrder(_, _)
\* the loop over labels['mergeGroups'] on the list accepted_units
RemoveMergedInOrder(accepted, mergeGroups) ==
    IF mergeGroups = <<>> THEN accepted
    ELSE LET m == Head(mergeGroups)
         IN RemoveMergedInOrder(IF MergedUnits(m) \subseteq Range(accepted)
                                THEN Without(accepted, MergedUnits(m)) ELSE accepted,
                                Tail(mergeGroups))

\* labels_concat: the joined labels of the accepted units, in their order
labels_concat(accepted, unit_labels) ==
    [i \in DOMAIN accepted |-> join(unit_labels[accepted[i]])]

RECURSIVE UnitsHandedOver(_, _)
\* the keys of the dict units: the unit ids of the sorting, in the order
\* the sorting lists them, that are accepted units
UnitsHandedOver(unit_ids, accepted) ==
    IF unit_ids = <<>> THEN <<>>
    ELSE IF Head(unit_ids) \in Range(accepted)
         THEN <<Head(unit_ids)>> \o UnitsHandedOver(Tail(unit_ids), accepted)
         ELSE UnitsHandedOver(Tail(unit_ids), accepted)

\* orig_units.iloc[1]: the second row of the units table of the parent
\* sorting, which a table of fewer than two rows does not have
HasSecondRow(orig_units) == orig_units >= 2

\* Lines 1089-1156 for a parent sorting of orig_units units 1 .. orig_units.
\* order is the order labelsByUnit lists the labelled units in, unit_ids the
\* order the curated sorting lists its units in.  metrics.loc[accepted_units]
\* is handed an accepted unit the curated sorting lacks when a merged unit
\* stayed accepted; loc_raises says whether pandas raises then.
CuratedLabels(orig_units, order, unit_labels, mergeGroups, unit_ids, loc_raises) ==
    LET accepted == RemoveMergedInOrder(AcceptedInOrder(order, unit_labels), mergeGroups)
        missing == Range(accepted) \ Range(unit_ids)
        error == IF order = <<>> \/ accepted = <<>> THEN "no_accepted"
                 ELSE IF loc_raises THEN "KeyError"
                 ELSE IF ~HasSecondRow(orig_units) THEN "IndexError"
                 ELSE "none"
    IN /\ Range(order) = DOMAIN unit_labels
       /\ DOMAIN unit_labels \subseteq 1 .. orig_units
       /\ Range(unit_ids) = (1 .. orig_units) \ NonPrimaryUnits(mergeGroups)
       /\ loc_raises => missing # {}
       /\ labelCall' =
             [NoLabelCall EXCEPT
                 !.called = TRUE,
                 !.error = error,
                 !.orig_units = orig_units,
                 !.unit_labels = unit_labels,
                 !.accepted_units = accepted,
                 !.unit_ids = IF error = "none"
                              THEN UnitsHandedOver(unit_ids, accepted) ELSE <<>>,
                 !.labels_concat = IF error = "none"
                                   THEN labels_concat(accepted, unit_labels) ELSE <<>>,
                 !.sort_interval = IF error = "none" THEN ParentSortInterval ELSE <<>>]
       /\ UNCHANGED <<groupVars, labVars, sortingVars, curationVars, lastDelete,
                      storeVars, unitsTable, workspaces, metricDict, geometryCall,
                      recordingCall, artifactCall, ruleCall, runsInProgress,
                      inclusionCall>>

\* the merge groups among the units of the parent sorting
MergeGroupsOf(orig_units) ==
    {mergeGroups \in MergeGroupLists :
        \A i \in DOMAIN mergeGroups : Range(mergeGroups[i]) \subseteq 1 .. orig_units}

NextCuratedLabels ==
    \E orig_units \in 1 .. NumUnits :
       \E D \in SUBSET (1 .. orig_units), mergeGroups \in MergeGroupsOf(orig_units),
          loc_raises \in BOOLEAN :
          \E order \in FetchOrders(D), unit_labels \in [D -> LabelSequences],
             unit_ids \in FetchOrders((1 .. orig_units) \ NonPrimaryUnits(mergeGroups)) :
             CuratedLabels(orig_units, order, unit_labels, mergeGroups, unit_ids,
                           loc_raises)

SpecCuratedLabels == InitUnits /\ [][NextCuratedLabels]_vars

(***************************************************************************)
(* UnitInclusionParameters.get_included_units.  A label string is modelled *)
(* as the sequence of its characters, so that split(',') is computed.      *)
(***************************************************************************)
\* the strings the label column of a Unit row may hold: '', 'a', 'm',
\* 'am' and 'a,m'
LabelStrings == {<<>>, <<"a">>, <<"m">>, <<"a", "m">>, <<"a", ",", "m">>}

\* the metrics of a Unit row the thresholds are compared with
UnitMetrics == {"noise_overlap", "nn_hit_rate", "isi_violation", "firing_rate",
                "num_spikes"}

\* the metric values of a row: all 1, or all 1 but one metric that is 0 or 2
MetricProfiles ==
    {[metric \in UnitMetrics |-> 1]} \cup
    {[metric \in UnitMetrics |-> IF metric = off THEN v ELSE 1] :
        off \in UnitMetrics, v \in {0, 2}}

\* a row of CuratedSpikeSorting.Unit
InclusionUnitRow(nwb_file_name, sort_group_id, unit_id, label, metrics) ==
    [nwb_file_name |-> nwb_file_name, sort_group_id |-> sort_group_id,
     unit_id |-> unit_id, label |-> label,
     noise_overlap |-> metrics["noise_overlap"], nn_hit_rate |-> metrics["nn_hit_rate"],
     isi_violation |-> metrics["isi_violation"], firing_rate |-> metrics["firing_rate"],
     num_spikes |-> metrics["num_spikes"]]

\* exclude_label_list: NULL, or a list of label strings
ExcludeLabelLists ==
    {[null |-> TRUE, list |-> <<>>]} \cup
    {[null |-> FALSE, list |-> l] : l \in {<<>>, <<<<"a">>>>, <<<<"m">>>>,
                                           <<<<"a">>, <<"a", "m">>>>}}

\* the rows of UnitInclusionParameters: "default" holds the defaults of the
\* definition, "strict" sets every threshold to 1
UnitInclusionRows ==
    {[unit_inclusion_param_name |-> <<"default", x>>, max_noise_overlap |-> 1,
      min_nn_hit_rate |-> -1, max_isi_violation |-> 100, min_firing_rate |-> 0,
      max_firing_rate |-> 100000, min_num_spikes |-> 0, exclude_label_list |-> x] :
        x \in ExcludeLabelLists}
    \cup
    {[unit_inclusion_param_name |-> <<"strict", x>>, max_noise_overlap |-> 1,
      min_nn_hit_rate |-> 1, max_isi_violation |-> 1, min_firing_rate |-> 1,
      max_firing_rate |-> 1, min_num_spikes |-> 1, exclude_label_list |-> x] :
        x \in ExcludeLabelLists}

RECURSIVE split(_, _)
\* str.split(','): the pieces of the string between the commas; piece is
\* the piece read so far
split(string, piece) ==
    IF string = <<>> THEN <<piece>>
    ELSE IF Head(string) = "," THEN <<piece>> \o split(Tail(string), <<>>)
    ELSE split(Tail(string), Append(piece, Head(string)))

\* the restriction by the six conditions with the thresholds the noise
\* overlap must stay below
MeetsThresholds_Below(unit, inclusion_key) ==
    /\ unit.noise_overlap < inclusion_key.max_noise_overlap
    /\ unit.nn_hit_rate >= inclusion_key.min_nn_hit_rate
    /\ unit.isi_violation <= inclusion_key.max_isi_violation
    /\ unit.firing_rate >= inclusion_key.min_firing_rate
    /\ unit.firing_rate <= inclusion_key.max_firing_rate
    /\ unit.num_spikes >= inclusion_key.min_num_spikes

\* the six conditions the Unit table is restricted by
MeetsThresholds(unit, inclusion_key) ==
    /\ unit.noise_overlap <= inclusion_key.max_noise_overlap
    /\ unit.nn_hit_rate >= inclusion_key.min_nn_hit_rate
    /\ unit.isi_violation <= inclusion_key.max_isi_violation
    /\ unit.firing_rate >= inclusion_key.min_firing_rate
    /\ unit.firing_rate <= inclusion_key.max_firing_rate
    /\ unit.num_spikes >= inclusion_key.min_num_spikes

\* the loop over labels: exclude is set when a label is in the list
Excluded(unit, exclude_label_list) ==
    LET labels == split(unit.label, <<>>)
    IN \E i \in DOMAIN labels : labels[i] \in Range(exclude_label_list)

\* the rows of a part table restricted by fetched rows of its master: those
\* that agree with one of them on the primary key of the master
RestrictByRows(table, rows) ==
    {u \in table : \E r \in rows : /\ u.nwb_file_name = r.nwb_file_name
                                   /\ u.sort_group_id = r.sort_group_id}

\* get_included_units(curated_sorting_key, unit_inclusion_key): the units
\* returned, as a set
get_included_units(curated_sorting_key, inclusion_key) ==
    LET curated_sortings == Restrict(curatedSpikeSorting, curated_sorting_key)
        units == {u \in RestrictByRows(curatedUnits, curated_sortings) :
                     MeetsThresholds(u, inclusion_key)}
    IN IF ~inclusion_key.exclude_label_list.null
       THEN {unit \in units : ~Excluded(unit, inclusion_key.exclude_label_list.list)}
       ELSE units

\* the keys the curated sortings are chosen with: a session, with or
\* without a sort group
CuratedSortingKeys ==
    {[x \in D |-> IF x = "nwb_file_name" THEN k[1] ELSE k[2]] :
        k \in SortKeys, D \in {{"nwb_file_name"}, {"nwb_file_name", "sort_group_id"}}}

GetIncludedUnits(curated_sorting_key, inclusion_key) ==
    /\ inclusionCall' =
          [called |-> TRUE,
           curated_sortings |-> Restrict(curatedSpikeSorting, curated_sorting_key),
           unit_inclusion_param_name |-> inclusion_key.unit_inclusion_param_name,
           returned |-> get_included_units(curated_sorting_key, inclusion_key)]
    /\ UNCHANGED <<groupVars, labVars, sortingVars, curationVars, lastDelete,
                   storeVars, unitsTable, workspaces, metricDict, geometryCall,
                   recordingCall, artifactCall, ruleCall, runsInProgress, labelCall>>

\* the curated sortings of the two sort groups of "s1", each with one Unit
\* row: the labels of both and the metrics of the first are drawn from the
\* bounded sets, the metrics of the second are all 1
InitInclusion ==
    /\ electrodes = AccessElectrodes
    /\ sortGroups = {SortGroupRow([nwb_file_name |-> k[1], sort_group_id |-> k[2],
                                   sort_reference_electrode_id |-> -1]) : k \in SortKeys}
    /\ sortGroupElectrodes =
           {SortGroupElectrodeRow(e.nwb_file_name, e.probe_shank, e) : e \in AccessElectrodes}
    /\ lastGroupCall = NoGroupCall
    /\ params = {ParametersRow(k[1], k[2], "t1") : k \in SortKeys}
    /\ teamMembers = {TeamMemberRow("t1", "m1")}
    /\ memberInfo = {MemberInfoRow("m1", "u1")}
    /\ spikeSorting = {SortingRow("s1", id, StoredRunOf(<<"s1", id>>)) : id \in {0, 1}}
    /\ curatedSpikeSorting =
           {SortingRow("s1", id, NumSortingRuns + StoredRunOf(<<"s1", id>>)) :
               id \in {0, 1}}
    /\ curationSortings = {}
    /\ finalizedSortings = {}
    /\ lastDelete = NoDeleteCall
    /\ EmptyStore
    /\ workspaceCuration = [labelsByUnit |-> <<>>, mergeGroups |-> <<>>]
    /\ analysisFiles = {}
    /\ sortingFolders = {}
    /\ \E label \in [{0, 1} -> LabelStrings], metrics \in MetricProfiles :
          curatedUnits =
              {InclusionUnitRow("s1", 0, 1, label[0], metrics),
               InclusionUnitRow("s1", 1, 1, label[1], [metric \in UnitMetrics |-> 1])}
    /\ lastCurationCall = NoCurationCall
    /\ IdleStages

NextInclusion ==
    \E curated_sorting_key \in CuratedSortingKeys, inclusion_key \in UnitInclusionRows :
        GetIncludedUnits(curated_sorting_key, inclusion_key)

SpecInclusion == InitInclusion /\ [][NextInclusion]_vars

(***************************************************************************)
(* Properties.                                                             *)
(***************************************************************************)
GatedTables == {"SpikeSorting", "CuratedSpikeSorting"}

\* C1: a delete on SpikeSorting or on CuratedSpikeSorting (common) removes
\* rows only if the requester is among the datajoint user names of the team
\* of every candidate row; with one candidate row of a team without the
\* requester the call ends with an error and no table changes.
C1_DeleteAllOrNothing ==
    [][lastDelete'.table \in GatedTables =>
          /\ lastDelete'.unauthorized > 0 =>
                 /\ lastDelete'.error # "none"
                 /\ UNCHANGED <<spikeSorting, curatedSpikeSorting,
                                curationSortings, finalizedSortings>>
          /\ <<spikeSorting, curatedSpikeSorting>>' # <<spikeSorting, curatedSpikeSorting>>
                 => lastDelete'.unauthorized = 0]_vars

\* a batch of three rows, one of a team without the requester, was refused
C1_Witness ==
    /\ lastDelete.table = "SpikeSorting"
    /\ lastDelete.candidates = 3
    /\ lastDelete.unauthorized = 1
    /\ lastDelete.error = "Exception"
    /\ spikeSorting = StoredSortings

C3_DeleteAfterAuthorization ==
    lastDelete.removed > 0 => (lastDelete.checked /\ lastDelete.unauthorized = 0)

LiveRunIds == {r.analysis_file_name : r \in spikeSorting}

\* C4: nightly_cleanup removes exactly the directories of the storage
\* directory whose name is no analysis_file_name of SpikeSorting.
C4_NightlyRemovesExactlyOrphans ==
    [][lastStoreCall'.op = "nightly_cleanup" =>
          /\ dirs' = dirs \cap LiveRunIds
          /\ lastStoreCall'.removed = dirs \ LiveRunIds
          /\ UNCHANGED <<workDirs, spikeSorting, curatedSpikeSorting>>]_vars

\* live runs 1 and 3, directories 1 to 4: 2 and 4 were removed
C4_Witness ==
    /\ lastStoreCall.op = "nightly_cleanup"
    /\ LiveRunIds = {1, 3}
    /\ lastStoreCall.removed = {2, 4}
    /\ dirs = {1, 3}

\* C5: delete_extractors leaves every directory in place unless the answer
\* is 'y' or 'Y'; nightly_cleanup asks nothing and leaves no orphan.
C5_ConfirmationBeforeDelete ==
    [][/\ (lastStoreCall'.op = "delete_extractors"
              /\ ~(lastStoreCall'.answer \in {"y", "Y"}))
          => UNCHANGED <<dirs, workDirs>>
       /\ lastStoreCall'.op = "nightly_cleanup"
          => (lastStoreCall'.answer = "not asked" /\ dirs' \subseteq LiveRunIds)]_vars

\* the operator declined a non-empty delete list and the directories stayed
C5_Witness ==
    /\ lastStoreCall.op = "delete_extractors"
    /\ lastStoreCall.answer = "n"
    /\ Cardinality(lastStoreCall.listed) >= 2
    /\ lastStoreCall.listed \subseteq dirs

\* C6: what a confirmed delete_extractors removes are directories of the
\* storage directory whose name is no live run id: none of a run still in
\* SpikeSorting, whatever the key selects, and none outside the storage
\* directory.
C6_ExtractorsOnlyOrphans ==
    (lastStoreCall.op = "delete_extractors" /\ lastStoreCall.answer \in {"y", "Y"}) =>
        /\ lastStoreCall.removed \cap LiveRunIds = {}
        /\ lastStoreCall.removed_elsewhere = {}

\* C7: after nightly_cleanup no directory of a run that ended between making
\* its directory and inserting its row is left, and every directory of the
\* storage directory is named by an analysis_file_name of SpikeSorting.
C7_CleanupReconciles ==
    lastStoreCall.op = "nightly_cleanup" =>
        /\ dirs \subseteq LiveRunIds
        /\ dirs \cap abortedRuns = {}

\* two runs ended after their directories were made and the clean-up that
\* followed removed both, leaving the directory of a live run
C7_Witness ==
    /\ lastStoreCall.op = "nightly_cleanup"
    /\ Cardinality(abortedRuns) = 2
    /\ abortedRuns \subseteq lastStoreCall.removed
    /\ dirs # {}

\* the SortGroupElectrode rows of a session
MemberRows(nwb_file_name) ==
    {m \in sortGroupElectrodes : m.nwb_file_name = nwb_file_name}

IsMemberRowOf(m, e) ==
    /\ m.nwb_file_name = e.nwb_file_name
    /\ m.electrode_group_name = e.electrode_group_name
    /\ m.electrode_id = e.electrode_id

\* C8: after a grouping call on a session every electrode of the session
\* that is no bad channel is in exactly one SortGroup of the session, every
\* member row is of such an electrode, and every member row is of a group
\* the session has.
C8_GroupsPartitionGoodElectrodes ==
    lastGroupCall.op # "none" =>
        LET nwb == lastGroupCall.nwb_file_name
            good == {e \in electrodes : e.nwb_file_name = nwb /\ e.bad_channel = "False"}
        IN /\ \A e \in good :
                 Cardinality({m \in MemberRows(nwb) : IsMemberRowOf(m, e)}) = 1
           /\ \A m \in MemberRows(nwb) : \E e \in good : IsMemberRowOf(m, e)
           /\ \A m \in MemberRows(nwb) :
                 \E g \in sortGroups : /\ g.nwb_file_name = nwb
                                       /\ g.sort_group_id = m.sort_group_id

\* session "s1" grouped by shank into two groups, one of its channels bad
C8_Witness ==
    /\ lastGroupCall.op = "set_group_by_shank"
    /\ lastGroupCall.nwb_file_name = "s1"
    /\ Cardinality({g \in sortGroups : g.nwb_file_name = "s1"}) = 2
    /\ Cardinality(MemberRows("s1")) = 2
    /\ \E e \in electrodes : e.nwb_file_name = "s1" /\ e.bad_channel = "True"

\* C9: set_group_by_shank called on a session right after set_group_by_shank
\* on the same session leaves the SortGroup rows, with their ids and
\* references, and the member rows as the first call left them.
C9_GroupByShankIdempotent ==
    [][(lastGroupCall'.op = "set_group_by_shank" /\ lastGroupCall'.repeat) =>
          UNCHANGED <<sortGroups, sortGroupElectrodes>>]_vars

\* the call was repeated on "s1", which has two groups, one of them with
\* disagreeing references
C9_Witness ==
    /\ lastGroupCall.op = "set_group_by_shank"
    /\ lastGroupCall.repeat
    /\ lastGroupCall.nwb_file_name = "s1"
    /\ lastGroupCall.mismatch
    /\ Cardinality({g \in sortGroups : g.nwb_file_name = "s1"}) = 2

\* two good electrodes of one (electrode group, shank) of the session
\* declare different references
ShankReferencesDisagree(nwb_file_name) ==
    \E e1, e2 \in electrodes :
        /\ e1.nwb_file_name = nwb_file_name /\ e2.nwb_file_name = nwb_file_name
        /\ e1.bad_channel = "False" /\ e2.bad_channel = "False"
        /\ e1.electrode_group_name = e2.electrode_group_name
        /\ e1.probe_shank = e2.probe_shank
        /\ e1.original_reference_electrode # e2.original_reference_electrode

\* C10: when the electrodes of one (electrode group, shank) of the session
\* disagree on their reference, the grouping call raises, and the session
\* has no SortGroup row and no member row afterwards.
C10_MismatchLeavesNoGroups ==
    (lastGroupCall.op # "none" /\ ShankReferencesDisagree(lastGroupCall.nwb_file_name)) =>
        /\ lastGroupCall.raised
        /\ {g \in sortGroups : g.nwb_file_name = lastGroupCall.nwb_file_name} = {}
        /\ MemberRows(lastGroupCall.nwb_file_name) = {}

\* the electrode a member row names
ElectrodeOf(m) == CHOOSE e \in electrodes : IsMemberRowOf(m, e)

\* C11: after a grouping call every SortGroup of the session carries -1, -2
\* or an electrode id as its reference, and that reference is the declared
\* reference of every member electrode of the group.
C11_ReferenceSharedByMembers ==
    lastGroupCall.op # "none" =>
        \A g \in sortGroups :
            g.nwb_file_name = lastGroupCall.nwb_file_name =>
                /\ g.sort_reference_electrode_id \in {-1, -2} \cup ElectrodeIds
                /\ \A m \in MemberRows(g.nwb_file_name) :
                      m.sort_group_id = g.sort_group_id =>
                          ElectrodeOf(m).original_reference_electrode =
                              g.sort_reference_electrode_id

\* is the (electrode group, shank) of e1 before that of e2?
UnitBefore(e1, e2) ==
    \/ e1.electrode_group_name < e2.electrode_group_name
    \/ /\ e1.electrode_group_name = e2.electrode_group_name
       /\ e1.probe_shank < e2.probe_shank

\* C12: after set_group_by_shank on a session the sort_group_ids of the
\* session are 0..n-1, n the number of (electrode group, shank) pairs of its
\* good electrodes, one row per id, and the ids follow the ascending order
\* of electrode group name, then shank, whatever the order of the fetch.
C12_GroupIdsDenseAndOrdered ==
    lastGroupCall.op = "set_group_by_shank" =>
        LET nwb == lastGroupCall.nwb_file_name
            good == {e \in electrodes : e.nwb_file_name = nwb /\ e.bad_channel = "False"}
            pairs == {<<e.electrode_group_name, e.probe_shank>> : e \in good}
            groups == {g \in sortGroups : g.nwb_file_name = nwb}
        IN /\ {g.sort_group_id : g \in groups} = 0..(Cardinality(pairs) - 1)
           /\ Cardinality(groups) = Cardinality(pairs)
           /\ \A m1, m2 \in MemberRows(nwb) :
                 UnitBefore(ElectrodeOf(m1), ElectrodeOf(m2))
                     <=> m1.sort_group_id < m2.sort_group_id

\* session "s1" grouped by shank into three groups, two of them on the two
\* shanks of one electrode group
C12_Witness ==
    /\ lastGroupCall.op = "set_group_by_shank"
    /\ lastGroupCall.nwb_file_name = "s1"
    /\ Cardinality({g \in sortGroups : g.nwb_file_name = "s1"}) = 3
    /\ \E m1, m2 \in MemberRows("s1") :
          /\ m1.electrode_group_name = m2.electrode_group_name
          /\ m1.sort_group_id + 1 = m2.sort_group_id

\* C13: a grouping call on a session leaves the SortGroup rows and member
\* rows of every other session as they were, and leaves the session with
\* the groups of this call only: as many groups as the call forms units
\* and one member row per good electrode.
C13_GroupingReplacesSession ==
    [][lastGroupCall' # lastGroupCall =>
          LET nwb == lastGroupCall'.nwb_file_name
              good == {e \in electrodes : e.nwb_file_name = nwb /\ e.bad_channel = "False"}
              units == IF lastGroupCall'.op = "set_group_by_shank"
                       THEN {<<e.electrode_group_name, e.probe_shank>> : e \in good}
                       ELSE {e.electrode_group_name : e \in good}
          IN /\ {g \in sortGroups' : g.nwb_file_name # nwb}
                    = {g \in sortGroups : g.nwb_file_name # nwb}
             /\ {m \in sortGroupElectrodes' : m.nwb_file_name # nwb}
                    = {m \in sortGroupElectrodes : m.nwb_file_name # nwb}
             /\ Cardinality({g \in sortGroups' : g.nwb_file_name = nwb})
                    = Cardinality(units)
             /\ Cardinality({m \in sortGroupElectrodes' : m.nwb_file_name = nwb})
                    = Cardinality(good)]_vars

\* set_group_by_electrode_group replaced the two by-shank groups of "s1" by
\* one group, the group of session "s2" still there
C13_Witness ==
    /\ lastGroupCall.op = "set_group_by_electrode_group"
    /\ lastGroupCall.nwb_file_name = "s1"
    /\ lastGroupCall.replaced = 2
    /\ Cardinality({g \in sortGroups : g.nwb_file_name = "s1"}) = 1
    /\ \E g \in sortGroups : g.nwb_file_name = "s2"

C15_RecordingPreparedOnce ==
    [][(/\ lastStoreCall.op = "make" /\ lastStoreCall'.op = "make"
        /\ lastStoreCall.error # "sort_indices"
        /\ lastStoreCall'.error # "sort_indices"
        /\ lastStoreCall'.key = lastStoreCall.key
        /\ lastStoreCall'.sort_interval = lastStoreCall.sort_interval)
          => /\ lastStoreCall'.analysis_file_name = lastStoreCall.analysis_file_name
             /\ dirs' = dirs]_vars

RECURSIVE ReachesRoot(_, _)
\* do the parent pointers lead from the sorting to a root within n steps?
ReachesRoot(sorting_id, n) ==
    IF sorting_id = "" THEN TRUE
    ELSE IF n = 0 THEN FALSE
    ELSE \E p \in curationSortings :
            /\ p.sorting_id = sorting_id
            /\ ReachesRoot(p.parent_sorting_id, n - 1)

\* C16: the parent pointers of the CuratedSpikeSorting rows form a forest:
\* a row with a parent names a row of the table other than itself, and the
\* parent pointers lead from every row to a root.
C16_ParentPointersFormForest ==
    \A r \in curationSortings :
        /\ r.parent_sorting_id # "" =>
              /\ r.parent_sorting_id # r.sorting_id
              /\ \E p \in curationSortings : p.sorting_id = r.parent_sorting_id
        /\ ReachesRoot(r.sorting_id, Cardinality(curationSortings))

CurationOps == {"insert_sorting", "AutomaticCuration.make", "insert_manual_curation"}

C18_FailedCurationPersistsNothing ==
    [][(lastCurationCall' # lastCurationCall /\ lastCurationCall'.error # "none") =>
          UNCHANGED <<curationSortings, curatedSpikeSorting, analysisFiles,
                      sortingFolders, curatedUnits>>]_vars

\* C19: with no merge groups in the workspace, a curation that completes
\* writes exactly the units whose label list holds "accept".
C19_ExactlyAcceptedUnitsWritten ==
    (/\ lastCurationCall.op \in {"CuratedSpikeSorting.make", "insert_manual_curation"}
     /\ lastCurationCall.error = "none"
     /\ workspaceCuration.mergeGroups = <<>>)
        => lastCurationCall.units =
               {u \in UnitIds : /\ u \in DOMAIN workspaceCuration.labelsByUnit
                                /\ "accept" \in workspaceCuration.labelsByUnit[u]}

\* C20: a curation that got to the merge groups does not end at them, and
\* for each merge group: when all members but the first are accepted, of
\* the group only the first stays accepted, if it was; otherwise the
\* accepted members of the group are what they were.
C20_MergeGroupsCollapse ==
    LET unit_labels == workspaceCuration.labelsByUnit
        mergeGroups == workspaceCuration.mergeGroups
        by_label == {u \in DOMAIN unit_labels : "accept" \in unit_labels[u]}
        call == lastCurationCall
    IN ((call.op = "CuratedSpikeSorting.make" /\ call.error # "no_sorting")
           \/ (call.op = "insert_manual_curation"
                  /\ call.error \in InsertEndings \cup {"remove"}))
        => /\ call.error # "remove"
           /\ \A i \in DOMAIN mergeGroups :
                 LET m == mergeGroups[i]
                     others == {m[j] : j \in 2 .. Len(m)}
                     group == others \cup {m[1]}
                 IN call.accepted \cap group =
                        IF others \subseteq by_label
                        THEN {m[1]} \cap by_label
                        ELSE by_label \cap group

\* the units a curation counts as accepted: those labelled "accept", the
\* non-primary members of the merge groups whose members are accepted gone
AcceptedAfterMerge ==
    RemoveMerged(accepted_units(workspaceCuration.labelsByUnit),
                 workspaceCuration.mergeGroups)

\* C21: a manual curation that got to the labels and finds no accepted unit
\* ends at its early exit, not at an error, and leaves no sorting row, no
\* analysis file, no saved sorting and no Unit row behind.
C21_NoAcceptedUnitsNoArtifact ==
    [][(/\ \/ /\ lastCurationCall'.op = "CuratedSpikeSorting.make"
              /\ lastCurationCall'.error # "no_sorting"
           \/ /\ lastCurationCall'.op = "insert_manual_curation"
              /\ lastCurationCall'.error # "load_workspace"
        /\ AcceptedAfterMerge = {})
          => /\ lastCurationCall'.error = "no_accepted"
             /\ UNCHANGED <<curationSortings, curatedSpikeSorting, analysisFiles,
                            sortingFolders, curatedUnits>>]_vars

\* C22: a manual curation that completes stores metrics with an entry for
\* exactly the accepted units; the entries are recomputed ones when the
\* workspace has merge groups and the parent's otherwise.
C22_MetricsCoverAcceptedUnits ==
    [][(/\ lastCurationCall'.op \in {"CuratedSpikeSorting.make", "insert_manual_curation"}
        /\ lastCurationCall'.error = "none")
          => \A f \in analysisFiles' \ analysisFiles :
                /\ DOMAIN f.metrics = AcceptedAfterMerge
                /\ \A u \in DOMAIN f.metrics :
                      f.metrics[u] = IF workspaceCuration.mergeGroups # <<>>
                                     THEN "recomputed" ELSE "prior"]_vars

\* what the projection gives for one row of the units table
ProjectedUnit(table, unit_id) ==
    [a \in {"nwb_file_name", "sort_group_id", "unit_id"} \cup DOMAIN UnitDefaults |->
        IF a = "nwb_file_name" THEN "s1"
        ELSE IF a = "sort_group_id" THEN 0
        ELSE IF a = "unit_id" THEN unit_id
        ELSE IF a \notin table.columns THEN UnitDefaults[a]
        ELSE IF a = "label" THEN table.label[unit_id]
        ELSE IF table.metrics[unit_id][a] = NaN THEN -1
        ELSE table.metrics[unit_id][a][1]]

\* C23: the Unit rows are the projection of the units table: one row per
\* unit of the table, each with the label and the metrics of its own row of
\* the table, -1 for a metric and "" for a label the table does not give.
C23_UnitsArePureProjection ==
    unitsTable # NoUnitsTable =>
        /\ curatedUnits = {ProjectedUnit(unitsTable, u) : u \in DOMAIN unitsTable.label}
        /\ \A u \in DOMAIN unitsTable.label :
              Cardinality({r \in curatedUnits : r.unit_id = u}) = 1

\* two units were inserted: the first with a number where the second has
\* NaN, a column absent, and labels that differ
C23_Witness ==
    /\ DOMAIN unitsTable.label = {1, 2}
    /\ Cardinality(curatedUnits) = 2
    /\ "label" \in unitsTable.columns
    /\ unitsTable.label[1] # unitsTable.label[2]
    /\ "noise_overlap" \in unitsTable.columns
    /\ unitsTable.metrics[1]["noise_overlap"] = <<1>>
    /\ unitsTable.metrics[2]["noise_overlap"] = NaN
    /\ "num_spikes" \notin unitsTable.columns
    /\ \E r \in curatedUnits : r.unit_id = 2 /\ r.noise_overlap = -1 /\ r.num_spikes = -1

\* C24: no sorting key has two workspaces.
C24_OneWorkspacePerKey ==
    \A w1 \in workspaces : \A w2 \in workspaces : w1.key = w2.key => w1 = w2

\* C25: a curation stage run for a sorting whose output exists already (the
\* folder of its manual curation is saved, or a row of its path and parent
\* is in the table) and that gets past loading its inputs ends without an
\* error and leaves the table as it is.
C25_ExistingOutputIsSuccess ==
    [][LET call == lastCurationCall'
       IN /\ (/\ call.op = "insert_manual_curation"
              /\ call.error \notin {"load_workspace", "remove", "fetch1"}
              /\ \E f \in sortingFolders :
                    f.sorting_path = <<call.parent_sorting_id, "manual_curation">>)
                => /\ call.error = "none"
                   /\ curationSortings' = curationSortings
          /\ (/\ call.op = "insert_sorting"
              /\ call.error = "none"
              /\ \E r \in curationSortings' \ curationSortings :
                    \E q \in curationSortings :
                       /\ q.sorting_path = r.sorting_path
                       /\ q.parent_sorting_id = r.parent_sorting_id)
                => curationSortings' = curationSortings]_vars

\* C26: the row a manual curation adds names the folder this run saved its
\* sorting in, a path no row of the table had.
C26_RunsWriteUnderOwnNames ==
    [][(/\ lastCurationCall'.op = "insert_manual_curation"
        /\ lastCurationCall'.error = "none")
          => \A r \in curationSortings' \ curationSortings :
                /\ ~\E q \in curationSortings : q.sorting_path = r.sorting_path
                /\ \E f \in sortingFolders' \ sortingFolders :
                      f.sorting_path = r.sorting_path]_vars

\* C27: a run of make that ends at the call of the sorter ends with the
\* error of the sorter, has called the sorter once, and leaves the
\* SpikeSorting table as it was.
C27_SorterFailurePropagatesOnce ==
    [][(lastStoreCall'.op = "make" /\ lastStoreCall'.error = "run_sorter")
          => /\ lastStoreCall'.run_sorter_calls = 1
             /\ spikeSorting' = spikeSorting
             /\ Restrict(spikeSorting', [nwb_file_name |-> lastStoreCall'.key[1],
                                         sort_group_id |-> lastStoreCall'.key[2]]) = {}]_vars

\* a run for ("s1", 0) ended at the sorter, its directory made, the table
\* without a row of the key
C27_Witness ==
    /\ lastStoreCall.op = "make"
    /\ lastStoreCall.error = "run_sorter"
    /\ lastStoreCall.key = <<"s1", 0>>
    /\ lastStoreCall.run_sorter_calls = 1
    /\ lastStoreCall.analysis_file_name \in dirs
    /\ Restrict(spikeSorting, [nwb_file_name |-> "s1", sort_group_id |-> 0]) = {}

\* C28: validate_metrics_list reports a metric_dict valid exactly when all
\* its names are in the catalog and ends with UnknownMetricError when one
\* is not; a run of make under a metric_dict with a name outside the
\* catalog does not get to compute_metrics.
C28_UnknownMetricRejectedBeforeCompute ==
    [][LET call == lastStoreCall'
           known == DOMAIN metricDict \subseteq metrics_list
       IN /\ call.op = "validate_metrics_list" =>
                /\ call.valid <=> known
                /\ ~known => call.error = "UnknownMetricError"
          /\ (call.op = "make" /\ ~known) => call.compute_metrics_calls = 0]_vars

\* the axes on which a member electrode has a position other than zero, in
\* the order x, y, z
RECURSIVE InformativeAxes(_, _)
InformativeAxes(tmp_geom, i) ==
    IF i > 3 THEN <<>>
    ELSE (IF \E row \in DOMAIN tmp_geom : tmp_geom[row][i] # 0 THEN <<i>> ELSE <<>>)
             \o InformativeAxes(tmp_geom, i + 1)

\* C29: get_geometry gives every member electrode its positions on the
\* first two axes on which some member electrode is off zero, and zero in
\* a column for which no such axis is left.
C29_GeometryKeepsFirstTwoAxes ==
    geometryCall # NoGeometryCall =>
        LET tmp_geom == geometryCall.tmp_geom
            axes == InformativeAxes(tmp_geom, 1)
        IN /\ DOMAIN geometryCall.geometry = DOMAIN tmp_geom
           /\ \A row \in DOMAIN tmp_geom : \A col \in 1 .. 2 :
                 geometryCall.geometry[row][col] =
                     IF col <= Len(axes) THEN tmp_geom[row][axes[col]] ELSE 0

\* C30: after set_reference_from_list every sort group of the session that
\* the list names has the reference the list gives it, every other sort
\* group is the row it was, and the member electrodes are what they were.
C30_ReferencesSetFromList ==
    [][lastGroupCall'.op = "set_reference_from_list" =>
          LET list == lastGroupCall'.sort_group_ref_list
              session == lastGroupCall'.nwb_file_name
              Named(g) == /\ g.nwb_file_name = session
                          /\ \E i \in DOMAIN list : list[i][1] = g.sort_group_id
          IN /\ \A g \in sortGroups' :
                   \A i \in DOMAIN list :
                      (g.nwb_file_name = session /\ list[i][1] = g.sort_group_id)
                          => g.sort_reference_electrode_id = list[i][2]
             /\ \A g \in sortGroups : ~Named(g) => g \in sortGroups'
             /\ {<<g.nwb_file_name, g.sort_group_id>> : g \in sortGroups'}
                    = {<<g.nwb_file_name, g.sort_group_id>> : g \in sortGroups}
             /\ sortGroupElectrodes' = sortGroupElectrodes]_vars

\* the member electrodes of the sort group the last recording was made for
MembersOfRecording ==
    {m.electrode_id :
        m \in Restrict(sortGroupElectrodes,
                       [nwb_file_name |-> recordingCall.nwb_file_name,
                        sort_group_id |-> recordingCall.sort_group_id])}

\* the reference of the sort group the last recording was made for
ReferenceOfRecording ==
    sort_reference_electrode_id([nwb_file_name |-> recordingCall.nwb_file_name,
                                 sort_group_id |-> recordingCall.sort_group_id])

\* C31: the channels of the prepared recording are exactly the member
\* electrodes of the sort group under every reference policy.  With a
\* reference electrode (id >= 0) the recording is sliced to the members and
\* that electrode, the electrode is subtracted as single reference and is
\* no channel of the result unless it is a member; with -2 the median is
\* subtracted from the members; with -1 nothing is subtracted.
C31_ChannelsAreGroupMembers ==
    (recordingCall.called /\ recordingCall.error = "none") =>
        LET ref == ReferenceOfRecording
        IN /\ Range(recordingCall.channel_ids) = MembersOfRecording
           /\ Len(recordingCall.channel_ids) = Cardinality(MembersOfRecording)
           /\ ref >= 0 =>
                 /\ Range(recordingCall.sliced) = MembersOfRecording \cup {ref}
                 /\ recordingCall.reference = "single"
                 /\ recordingCall.ref_channels = {ref}
                 /\ ref \notin MembersOfRecording =>
                        ref \notin Range(recordingCall.channel_ids)
           /\ ref = -2 =>
                 /\ recordingCall.reference = "median"
                 /\ Range(recordingCall.sliced) = MembersOfRecording
           /\ ref = -1 =>
                 /\ recordingCall.reference = "none"
                 /\ Range(recordingCall.sliced) = MembersOfRecording

\* a recording was prepared with reference electrode 0, which is no member
\* of the sort group, and has exactly the members as channels
C31_Witness ==
    /\ recordingCall.called
    /\ recordingCall.error = "none"
    /\ ReferenceOfRecording = 0
    /\ 0 \notin MembersOfRecording
    /\ 0 \in Range(recordingCall.sliced)
    /\ recordingCall.reference = "single"
    /\ Range(recordingCall.channel_ids) = MembersOfRecording

\* artifact detection is disabled: skip is set or no threshold is above 0
DetectionDisabled(parameter_dict) ==
    \/ parameter_dict.skip
    \/ parameter_dict.zscore_thresh <= 0 /\ parameter_dict.amplitude_thresh <= 0

\* C32: with artifact detection disabled (skip set, or both thresholds
\* <= 0) the artifact step is a no-op: it ends without an error, masks no
\* sample and leaves the valid times of the sort interval as they were, and
\* get_no_artifact_times returns the one interval from the timestamp of the
\* first sample of the recording to the timestamp of its last sample.
C32_DisabledArtifactStepIsNoOp ==
    (artifactCall.op # "none" /\ DetectionDisabled(artifactCall.parameter_dict)) =>
        /\ artifactCall.error = "none"
        /\ ~artifactCall.masked
        /\ ~artifactCall.valid_times_updated
        /\ artifactCall.op = "get_no_artifact_times" =>
              LET ts == recording_timestamps(artifactCall.sort_indices)
              IN artifactCall.returned = <<ts[1], ts[Len(ts)]>>

\* the units the reject rule keeps: those whose ISI-violation fraction does
\* not exceed the threshold, all of them under empty reject params
UnitsPassingReject(units, isi_violation, reject_params) ==
    IF DOMAIN reject_params = {} THEN units
    ELSE {u \in units :
            isi_violation[u] <= reject_params["isi_violation_frac_threshold"]}

\* the child rows a run of AutomaticCuration.make left for a parent
ChildRowsOf(parent_sorting_id) ==
    {r \in curationSortings : r.parent_sorting_id = parent_sorting_id}

\* C33: AutomaticCuration.make applies the reject rule, then the merge
\* rule.  The reject rule returns the units of its input whose
\* ISI-violation fraction does not exceed the threshold (all units under
\* empty params), and a run of make for a stored parent ends without an
\* error and leaves a child sorting of the parent.
C33_RejectThenMerge ==
    /\ ruleCall.op = "_sorting_after_reject" =>
          /\ ruleCall.error = "none"
          /\ ruleCall.sorting =
                UnitsPassingReject(ruleCall.units, ruleCall.isi_violation,
                                   ruleCall.params)
    /\ (/\ lastCurationCall.op = "AutomaticCuration.make"
        /\ \E r \in curationSortings :
              r.sorting_id = lastCurationCall.parent_sorting_id)
          => /\ lastCurationCall.error = "none"
             /\ ChildRowsOf(lastCurationCall.parent_sorting_id) # {}

\* C34: under empty merge params the merge rule returns its input sorting
\* with 'no merge performed', and make then stores the metrics of the
\* parent on a child row that names the parent; under non-empty merge
\* params the rule still returns a pair (sorting, flag).
C34_NoMergeCarriesMetrics ==
    /\ ruleCall.op = "_sorting_after_merge" =>
          /\ ruleCall.returned = "pair"
          /\ DOMAIN ruleCall.params = {} =>
                /\ ruleCall.sorting = ruleCall.units
                /\ ~ruleCall.units_merged
    /\ (/\ lastCurationCall.op = "AutomaticCuration.make"
        /\ \E r \in curationSortings :
              r.sorting_id = lastCurationCall.parent_sorting_id)
          => \E r \in ChildRowsOf(lastCurationCall.parent_sorting_id) :
                r.metrics = quality_metrics

\* C35: a curation stage inserts the row that registers its sorting after
\* the files of the sorting are written, and under the id that was
\* generated before the write and names the saved sorting: the analysis
\* file of every row a stage adds is stored, and the folder the stage saved
\* its sorting in is named by the sorting_id of the row.
C35_RowRegisteredUnderIdOfSavedSorting ==
    [][(/\ lastCurationCall'.op \in {"insert_manual_curation", "AutomaticCuration.make"}
        /\ lastCurationCall'.error = "none")
          => \A r \in curationSortings' \ curationSortings :
                /\ \E a \in analysisFiles' :
                      a.analysis_file_name = r.analysis_file_name
                /\ \E f \in sortingFolders' \ sortingFolders :
                      f.sorting_path[1] = r.sorting_id]_vars

C37_UnitsStoredWithOwnLabels ==
    (labelCall.called /\ labelCall.error = "none") =>
        /\ Len(labelCall.labels_concat) = Len(labelCall.unit_ids)
        /\ \A i \in DOMAIN labelCall.unit_ids :
              labelCall.labels_concat[i] =
                  join(labelCall.unit_labels[labelCall.unit_ids[i]])

\* C38: CuratedSpikeSorting.make produces a curated sorting for every
\* parent sorting with an accepted unit left after the merge groups are
\* collapsed, a parent of exactly one unit included, and stores the sort
\* interval of the parent with it.
C38_ArtifactForEveryAcceptedParent ==
    (labelCall.called /\ labelCall.accepted_units # <<>>) =>
        /\ labelCall.error = "none"
        /\ labelCall.sort_interval = ParentSortInterval

\* the labels a comma-separated string holds: the stretches of the string
\* without a comma that reach from its start or a comma to a comma or its end
CommaSeparatedLabels(string) ==
    {SubSeq(string, i, j) :
        <<i, j>> \in {p \in (1 .. Len(string) + 1) \X (0 .. Len(string)) :
                        /\ p[1] <= p[2] + 1
                        /\ p[1] = 1 \/ string[p[1] - 1] = ","
                        /\ p[2] = Len(string) \/ string[p[2] + 1] = ","
                        /\ \A n \in p[1] .. p[2] : string[n] # ","}}

\* the rows of UnitInclusionParameters under the name of the last call
InclusionRowOfCall ==
    CHOOSE row \in UnitInclusionRows :
        row.unit_inclusion_param_name = inclusionCall.unit_inclusion_param_name

\* C39: get_included_units returns exactly the Unit rows of the selected
\* curated sortings that meet every threshold (noise_overlap <= max,
\* nn_hit_rate >= min, isi_violation <= max, min <= firing_rate <= max,
\* num_spikes >= min) and, when an exclude label list is set, have none of
\* their comma-separated labels in the list.
C39_IncludedUnitsMeetAllConditions ==
    inclusionCall.called =>
        LET row == InclusionRowOfCall
        IN \A unit \in curatedUnits :
              unit \in inclusionCall.returned <=>
                 /\ \E r \in inclusionCall.curated_sortings :
                       /\ r.nwb_file_name = unit.nwb_file_name
                       /\ r.sort_group_id = unit.sort_group_id
                 /\ unit.noise_overlap <= row.max_noise_overlap
                 /\ unit.nn_hit_rate >= row.min_nn_hit_rate
                 /\ unit.isi_violation <= row.max_isi_violation
                 /\ row.min_firing_rate <= unit.firing_rate
                 /\ unit.firing_rate <= row.max_firing_rate
                 /\ unit.num_spikes >= row.min_num_spikes
                 /\ ~row.exclude_label_list.null =>
                       CommaSeparatedLabels(unit.label) \cap
                           Range(row.exclude_label_list.list) = {}

\* a call with every threshold at 1 and the list ['a'] returned the unit
\* labelled 'am' of one sorting and left out the unit labelled 'a,m' of
\* the other, both of them meeting the thresholds
C39_Witness ==
    /\ inclusionCall.called
    /\ InclusionRowOfCall.min_nn_hit_rate = 1
    /\ InclusionRowOfCall.exclude_label_list = [null |-> FALSE, list |-> <<<<"a">>>>]
    /\ Cardinality(inclusionCall.curated_sortings) = 2
    /\ \E u \in inclusionCall.returned : u.label = <<"a", "m">> /\ u.noise_overlap = 1
    /\ \E u \in curatedUnits \ inclusionCall.returned :
          /\ u.label = <<"a", ",", "m">>
          /\ MeetsThresholds(u, InclusionRowOfCall)

====
